---- MODULE Spec2Model ----
(***************************************************************************)
(* A model of trickster's HTTP proxy engine (ProxyRequest, Fetch,          *)
(* PrepareFetchReader and the progressive collapsed forwarder map Reqs)    *)
(* of the route registration (RegisterProxyRoutes, registerPathRoutes), of *)
(* the configuration (Load, TricksterConfig.String) and of the cache       *)
(* access of the engines (QueryCache, WriteCache).                         *)
(*                                                                         *)
(* Spec      : concurrent ProxyRequest / Fetch calls against one origin.   *)
(* FanOutSpec: one more call, all on the progressive path.                 *)
(* LiveSpec  : progressive calls with the goroutine scheduler's fairness.  *)
(* RouteSpec : one run of RegisterProxyRoutes over a configured origin map.*)
(* PathSpec  : one run of registerPathRoutes over an origin's path rules.  *)
(* LoadSpec  : one call of config.Load with its arguments and its file.    *)
(* StringSpec: one call of TricksterConfig.String.                         *)
(* CacheSpec : WriteCache and QueryCache calls against one cache.          *)
(* ExtentSpec: SetExtent of the Prometheus client on an upstream query.    *)
(* TracingSpec: calls of tracing.Init in one process.                      *)
(* SpanSpec  : route tracing middlewares and the spans of one request.     *)
(***************************************************************************)
EXTENDS Integers, Sequences, FiniteSets, TLC

\* ---------------------------------------------------------------- bounds
\* Number of concurrent calls (ProxyRequest or Fetch) in one behaviour of Spec;
\* FanOutSpec makes one more, so that two clients can join one forwarder.
NumRequests == 2

\* Number of configured origins with a name other than "default".
NumOrigins == 2

\* Number of path rules a user configures for one origin.
MaxUserPaths == 2

\* Number of status-code keys in the negative cache configurations of one file.
MaxNegativeKeys == 1

\* Number of key=value pairs in the query of a request given to SetExtent.
MaxParams == 2

\* The latest time of an extent, in ticks.
MaxTime == 3

\* Number of calls of tracing.Init in one process.
MaxInits == 4

\* ------------------------------------------------------ program constants
StatusBadRequest == 400
StatusBadGateway == 502

\* Status codes the origin answers with.
UpstreamStatuses == {200, 500}

Req == 1..(NumRequests + 1)
NoReq == 0

\* The cache keys oc.Host + "." + DeriveCacheKey(r, pc, "") can take.
Keys == {"k1"}

\* The origin configuration a request carries in its context.  Bodies are
\* counted in blocks and the size cap is scaled to them.
OriginConfig == [MaxObjectSizeBytes |-> 2]

\* The Content-Length values that tell the cases of ProxyRequest apart:
\* unknown (0), below the cap, not below the cap.
ContentLengths ==
    {0, OriginConfig.MaxObjectSizeBytes - 1, OriginConfig.MaxObjectSizeBytes}

\* The three callers of PrepareFetchReader: ProxyRequest on a path without
\* progressive collapsed forwarding, ProxyRequest on a progressive path, Fetch.
Kinds == {"plain", "progressive", "fetch"}

\* tc.LookupStatus values as rendered by String().
LookupStatusProxyOnly == "proxy-only"
LookupStatusProxyError == "proxy-error"
\* The zero value of tc.LookupStatus (var cacheStatusCode tc.LookupStatus).
LookupStatusZero == "hit"

\* ---------------------------------------------------------------- headers
\* An http.Header restricted to the two headers the engine reads or writes:
\* Content-Length (0: absent) and X-Trickster-Result (set = FALSE: absent).
NoResult == [set |-> FALSE, engine |-> "", status |-> ""]
EmptyHeader == [ContentLength |-> 0, Result |-> NoResult]

\* headers.SetResultsHeader(header, engine, status, "", nil)
SetResultsHeader(header, engine, status) ==
    IF engine = "" THEN header
    ELSE [header EXCEPT !.Result = [set |-> TRUE, engine |-> engine, status |-> status]]

\* A *http.Response; exists = FALSE is the nil pointer.
NilResp == [exists |-> FALSE, status |-> 0, header |-> EmptyHeader]
MkResp(status, header) == [exists |-> TRUE, status |-> status, header |-> header]

\* ------------------------------------------------------- upstream outcomes
\* What r.HTTPClient.Do(req) can come back with:
\*   ok        a response (status, Content-Length header cl, body of len blocks)
\*   refused   err != nil, resp == nil: the origin could not be reached
\*   timeout   err != nil, resp == nil: the client's timeout elapsed
\*   redirect  err != nil, resp != nil: the redirect policy failed
NoOutcome == [kind |-> "none", status |-> 0, cl |-> 0, len |-> 0]

\* The responses the origin can give for the requested URL.  A declared
\* Content-Length (cl # 0) is the body's length; a body of unknown length
\* (cl = 0: no header, or one Atoi cannot parse) is empty or not.
Resources ==
    {[kind |-> "ok", status |-> s, cl |-> c, len |-> c] :
        s \in UpstreamStatuses, c \in ContentLengths \ {0}}
    \cup {[kind |-> "ok", status |-> s, cl |-> 0, len |-> l] :
        s \in UpstreamStatuses, l \in {0, OriginConfig.MaxObjectSizeBytes}}

\* What one call of HTTPClient.Do can come back with when the origin holds res.
Outcomes(res) ==
    {res}
    \cup {[kind |-> k, status |-> 0, cl |-> 0, len |-> 0] : k \in {"refused", "timeout"}}
    \cup {[kind |-> "redirect", status |-> 302, cl |-> 0, len |-> 0]}

\* http.NewRequest failed: PrepareFetchReader returns before any upstream call.
BadRequestOutcome == [kind |-> "badreq", status |-> 0, cl |-> 0, len |-> 0]

\* The header of the origin's response.
OriginHeader(o) == [EmptyHeader EXCEPT !.ContentLength = o.cl]

\* Mutant: a timeout is answered with 504 Gateway Timeout.
PrepareFetchReader504(o) ==
    CASE o.kind = "badreq" -> [reader |-> FALSE, resp |-> NilResp, cl |-> 0]
      [] o.kind = "timeout" ->
            [reader |-> FALSE, resp |-> MkResp(504, EmptyHeader), cl |-> 0]
      [] o.kind = "refused" ->
            [reader |-> FALSE, resp |-> MkResp(StatusBadGateway, EmptyHeader), cl |-> 0]
      [] o.kind = "redirect" ->
            [reader |-> FALSE,
             resp |-> MkResp(o.status, OriginHeader(o)), cl |-> 0]
      [] OTHER ->
            [reader |-> TRUE,
             resp |-> MkResp(o.status, [OriginHeader(o) EXCEPT !.ContentLength = 0]),
             cl |-> o.cl]

\* Mutant: the nil response of an unreachable origin is passed on as it is.
PrepareFetchReaderNilResp(o) ==
    CASE o.kind \in {"badreq", "refused", "timeout"} ->
            [reader |-> FALSE, resp |-> NilResp, cl |-> 0]
      [] o.kind = "redirect" ->
            [reader |-> FALSE,
             resp |-> MkResp(o.status, OriginHeader(o)), cl |-> 0]
      [] OTHER ->
            [reader |-> TRUE,
             resp |-> MkResp(o.status, [OriginHeader(o) EXCEPT !.ContentLength = 0]),
             cl |-> o.cl]

\* PrepareFetchReader, given what http.NewRequest and HTTPClient.Do came back
\* with: (reader, resp, cl).  reader = FALSE is the nil reader.
PrepareFetchReader(o) ==
    IF o.kind = "badreq"
    THEN \* http.NewRequest: return nil, nil, 0
         [reader |-> FALSE, resp |-> NilResp, cl |-> 0]
    ELSE IF o.kind # "ok"
    THEN \* err != nil
         [reader |-> FALSE,
          resp |-> IF o.kind \in {"refused", "timeout"}
                   THEN MkResp(StatusBadGateway, EmptyHeader)
                   ELSE MkResp(o.status, OriginHeader(o)),
          cl |-> 0]
    ELSE \* originalLen is parsed, then the Content-Length header is deleted
         [reader |-> TRUE,
          resp |-> MkResp(o.status, [OriginHeader(o) EXCEPT !.ContentLength = 0]),
          cl |-> o.cl]

\* Mutant: one more attempt is made by the client.
HTTPClientDoTwice(calls) == calls + 2

\* resp, err := r.HTTPClient.Do(req): one upstream request is issued.
HTTPClientDo(calls) == calls + 1

\* Mutant: the status is computed and the header left alone.
setStatusHeaderNoHeader(httpStatus, header) ==
    [status |-> IF httpStatus >= StatusBadRequest
                THEN LookupStatusProxyError ELSE LookupStatusProxyOnly,
     header |-> header]

\* setStatusHeader: the lookup status and the header with the result set.
setStatusHeader(httpStatus, header) ==
    LET status == IF httpStatus >= StatusBadRequest
                  THEN LookupStatusProxyError ELSE LookupStatusProxyOnly
    IN [status |-> status, header |-> SetResultsHeader(header, "HTTPProxy", status)]

\* recordResults: the metrics are left out; the header is written again.
recordResults(engine, cacheStatus, header) == SetResultsHeader(header, engine, cacheStatus)

\* What a client has been sent: the status line and headers at WriteHeader,
\* and the number of body blocks copied to it.
NothingSent == [written |-> FALSE, status |-> 0, header |-> EmptyHeader, body |-> 0]

\* PrepareResponseWriter: the header is copied to w.Header(), then WriteHeader(code).
PrepareResponseWriter(code, header) ==
    [written |-> TRUE, status |-> code, header |-> header, body |-> 0]

\* A ProgressiveCollapseForwarder; exists = FALSE before NewPCF.
\* ppc is the position of the goroutine that feeds it.
NoPCF == [exists |-> FALSE, key |-> "", cl |-> 0, capStatus |-> 0,
          capHeader |-> EmptyHeader, len |-> 0, written |-> 0,
          closed |-> FALSE, ppc |-> "none"]

\* NewPCF(resp, cl)
NewPCF(resp, cl, k, bodyLen) ==
    [exists |-> TRUE, key |-> k, cl |-> cl, capStatus |-> resp.status,
     capHeader |-> resp.header, len |-> bodyLen, written |-> 0,
     closed |-> FALSE, ppc |-> "copy"]

\* ------------------------------------------------------------------ state
VARIABLES
    ncalls,         \* the number of calls the behaviour makes
    origin,         \* the response the origin gives for the requested URL
    pc,             \* pc[r]: position of call r
    kind,           \* kind[r]: which caller r is
    key,            \* key[r]: the key r derives (progressive path)
    Reqs,           \* Reqs[k]: the forwarder (its creator's id) stored under k
    resp,           \* resp[i]: the http.Response allocated by call i
    respOf,         \* respOf[r]: the response r's resp variable points to
    up,             \* up[r]: what the upstream answered to r
    upstreamCalls,  \* upstreamCalls[r]: upstream requests issued by r
    cacheStatus,    \* cacheStatus[r]: r's cacheStatusCode
    pcf,            \* pcf[i]: the forwarder created by call i
    fwd,            \* fwd[r]: the forwarder r holds (NoReq: none)
    sent,           \* sent[r]: what r's client has been sent
    \* route registration
    configured,     \* config.Origins as configured, before registration
    origins,        \* config.Origins: name -> origin config
    todo,           \* names the range loop has not visited
    rpc,            \* position of RegisterProxyRoutes
    cdo,            \* name of the origin with IsDefault ("" : nil)
    ndo,            \* name of the origin named "default" ("" : nil)
    defaultOrigin,
    registered,     \* the calls of registerOriginRoutes, in order
    rerr,           \* the returned error ("" : nil)
    \* registerPathRoutes
    paths,          \* the client's default path rules (the paths argument)
    oPaths,         \* o.Paths: the user's path rules
    oIsDefault,     \* o.IsDefault
    pathsWithVerbs, \* key -> rule
    plist,          \* keys of the rules with a handler, in registration order
    router,         \* routing.Router: the routes, in registration order
    ppc,            \* position of registerPathRoutes
    \* config.Load
    invocation,     \* the arguments and the configuration file of the call
    conf,           \* c, the *TricksterConfig being loaded
    Config,         \* which configuration the package variables hold
    ltodo,          \* origins the loop over c.Origins has not visited
    lpc,            \* position of Load
    lerr,           \* the error Load returned ("" : nil)
    \* TricksterConfig.String
    running,        \* c, the configuration String is called on
    cp,             \* cp, the copy String works on
    text,           \* the text String returns
    spc,            \* position of String
    \* engines.QueryCache and engines.WriteCache
    compression,    \* c.Configuration().Compression
    store,          \* the cache c: storage key -> bytes
    written,        \* logical key -> the last document stored and still kept
    queried,        \* what the last QueryCache retrieved and returned
    \* prometheus Client.SetExtent
    rawQuery,       \* r.URL.RawQuery, its key=value pairs in order
    extent,         \* the extent given to SetExtent
    original,       \* r.URL.RawQuery before the first SetExtent
    first,          \* r.URL.RawQuery after the first SetExtent
    epc,            \* how often SetExtent has been applied
    \* tracing.Init
    onceDone,       \* once (sync.Once) has run its function
    flushers,       \* what the calls of Init returned, in order
    \* request spans
    tpc,            \* position of the router and of the request it serves
    middlewares,    \* the tracing middlewares of the router, in the order of Use
    spans,          \* the spans started for the request, with their End counts
    frames,         \* the spans whose End is deferred, innermost last
    serving,        \* name of the origin whose route serves the request
    handlerName     \* the handler of that route

proxyVars == <<ncalls, origin, pc, kind, key, Reqs, resp, respOf, up, upstreamCalls,
               cacheStatus, pcf, fwd, sent>>
routeVars == <<configured, origins, todo, rpc, cdo, ndo, defaultOrigin, registered, rerr>>
pathVars == <<paths, oPaths, oIsDefault, pathsWithVerbs, plist, router, ppc>>
loadVars == <<invocation, conf, Config, ltodo, lpc, lerr>>
stringVars == <<running, cp, text, spc>>
cacheVars == <<compression, store, written, queried>>
extentVars == <<rawQuery, extent, original, first, epc>>
tracingVars == <<onceDone, flushers>>
spanVars == <<tpc, middlewares, spans, frames, serving, handlerName>>
vars == <<proxyVars, routeVars, pathVars, loadVars, stringVars, cacheVars, extentVars, tracingVars, spanVars>>

\* What the actions of one part of the program leave alone.
outsideProxy == <<routeVars, pathVars, loadVars, stringVars, cacheVars, extentVars, tracingVars, spanVars>>
outsideRoute == <<proxyVars, pathVars, loadVars, stringVars, cacheVars, extentVars, tracingVars, spanVars>>
outsidePath == <<proxyVars, routeVars, loadVars, stringVars, cacheVars, extentVars, tracingVars, spanVars>>
outsideLoad == <<proxyVars, routeVars, pathVars, stringVars, cacheVars, extentVars, tracingVars, spanVars>>
outsideString == <<proxyVars, routeVars, pathVars, loadVars, cacheVars, extentVars, tracingVars, spanVars>>
outsideCache == <<proxyVars, routeVars, pathVars, loadVars, stringVars, extentVars, tracingVars, spanVars>>
outsideExtent == <<proxyVars, routeVars, pathVars, loadVars, stringVars, cacheVars, tracingVars, spanVars>>
outsideTracing == <<proxyVars, routeVars, pathVars, loadVars, stringVars, cacheVars, extentVars, spanVars>>
outsideSpan == <<proxyVars, routeVars, pathVars, loadVars, stringVars, cacheVars, extentVars, tracingVars>>

\* ------------------------------------------------------------- proxy engine
CallsIdle ==
    /\ pc = [r \in Req |-> "idle"]
    /\ kind = [r \in Req |-> "plain"]
    /\ key = [r \in Req |-> ""]
    /\ Reqs = [k \in Keys |-> NoReq]
    /\ resp = [r \in Req |-> NilResp]
    /\ respOf = [r \in Req |-> NoReq]
    /\ up = [r \in Req |-> NoOutcome]
    /\ upstreamCalls = [r \in Req |-> 0]
    /\ cacheStatus = [r \in Req |-> LookupStatusZero]
    /\ pcf = [r \in Req |-> NoPCF]
    /\ fwd = [r \in Req |-> NoReq]
    /\ sent = [r \in Req |-> NothingSent]

ProxyInit(n) == ncalls = n /\ origin \in Resources /\ CallsIdle

\* No call is made.
ProxyOff == ncalls = 0 /\ origin = NoOutcome /\ CallsIdle

\* Call r is over (it returned or panicked) and its locals are gone; the
\* responses and forwarders it allocated stay on the heap.
Gone(r, how) ==
    /\ pc' = [pc EXCEPT ![r] = how]
    /\ kind' = [kind EXCEPT ![r] = "plain"]
    /\ key' = [key EXCEPT ![r] = ""]
    /\ respOf' = [respOf EXCEPT ![r] = NoReq]
    /\ up' = [up EXCEPT ![r] = NoOutcome]
    /\ upstreamCalls' = [upstreamCalls EXCEPT ![r] = 0]
    /\ cacheStatus' = [cacheStatus EXCEPT ![r] = LookupStatusZero]
    /\ fwd' = [fwd EXCEPT ![r] = NoReq]
    /\ sent' = [sent EXCEPT ![r] = NothingSent]

\* The calls in flight that do not take the progressive branch.  They share
\* nothing with any other call, and one at a time is let in.
Direct == {q \in Req : pc[q] \notin {"idle", "done"} /\ kind[q] # "progressive"}

\* A call begins; calls are numbered in the order they begin.
Begin(r, kd, k) ==
    /\ pc[r] = "idle"
    /\ r <= ncalls
    /\ \A q \in Req : q < r => pc[q] # "idle"
    /\ kind' = [kind EXCEPT ![r] = kd]
    /\ key' = [key EXCEPT ![r] = k]
    /\ pc' = [pc EXCEPT ![r] = IF kd = "progressive" THEN "load" ELSE "prepare"]
    /\ UNCHANGED <<Reqs, resp, respOf, up, upstreamCalls, cacheStatus, pcf, fwd, sent>>
    /\ UNCHANGED <<ncalls, origin, outsideProxy>>

\* ProxyRequest on a path with progressive collapsed forwarding: pc and oc are
\* read from the request's context and the key is derived.
StartProgressive(r) == \E k \in Keys : Begin(r, "progressive", k)

\* ProxyRequest on any other path, or Fetch.
StartDirect(r) ==
    /\ Direct = {}
    /\ \E kd \in Kinds \ {"progressive"} : Begin(r, kd, "")

\* result, ok := Reqs.Load(key)
Load(r) ==
    /\ pc[r] = "load"
    /\ fwd' = [fwd EXCEPT ![r] = Reqs[key[r]]]
    /\ pc' = [pc EXCEPT ![r] = IF Reqs[key[r]] = NoReq THEN "prepare" ELSE "join"]
    /\ UNCHANGED <<kind, key, Reqs, resp, respOf, up, upstreamCalls, cacheStatus, pcf, sent>>
    /\ UNCHANGED <<ncalls, origin, outsideProxy>>

\* The caller's code after PrepareFetchReader has returned for outcome o;
\* n is the number of body blocks io.Copy gets from the reader.
AfterPrepare(r, o, n) ==
    LET p == PrepareFetchReader(o)
        sh == setStatusHeader(p.resp.status, p.resp.header)
        w == PrepareResponseWriter(p.resp.status, sh.header)
        rs == MkResp(p.resp.status, sh.header)
    IN
    /\ up' = [up EXCEPT ![r] = o]
    /\ IF kind[r] = "fetch"
       THEN \* ioutil.ReadAll(reader) on a nil reader, resp.Body.Close() on a nil resp
            /\ pc' = [pc EXCEPT ![r] = IF p.reader THEN "fetched" ELSE "panic"]
            /\ resp' = [resp EXCEPT ![r] = p.resp]
            /\ respOf' = [respOf EXCEPT ![r] = IF p.resp.exists THEN r ELSE NoReq]
            /\ UNCHANGED <<cacheStatus, sent, pcf, Reqs, fwd>>
       ELSE IF ~p.resp.exists
       THEN \* resp.StatusCode on a nil resp
            /\ pc' = [pc EXCEPT ![r] = "panic"]
            /\ UNCHANGED <<resp, respOf, cacheStatus, sent, pcf, Reqs, fwd>>
       ELSE /\ resp' = [resp EXCEPT ![r] = rs]
            /\ respOf' = [respOf EXCEPT ![r] = r]
            /\ cacheStatus' = [cacheStatus EXCEPT ![r] = sh.status]
            /\ IF kind[r] = "plain"
               THEN /\ sent' = [sent EXCEPT ![r] =
                                 IF p.reader THEN [w EXCEPT !.body = n] ELSE w]
                    /\ pc' = [pc EXCEPT ![r] = "record"]
                    /\ UNCHANGED <<pcf, Reqs, fwd>>
               ELSE /\ sent' = [sent EXCEPT ![r] = w]
                    /\ IF p.cl # 0 /\ p.cl < OriginConfig.MaxObjectSizeBytes
                       THEN /\ pcf' = [pcf EXCEPT ![r] = NewPCF(rs, p.cl, key[r], o.len)]
                            /\ Reqs' = [Reqs EXCEPT ![key[r]] = r]
                            /\ fwd' = [fwd EXCEPT ![r] = r]
                            /\ pc' = [pc EXCEPT ![r] = "addclient"]
                       ELSE /\ pc' = [pc EXCEPT ![r] = "record"]
                            /\ UNCHANGED <<pcf, Reqs, fwd>>

\* PrepareFetchReader up to the call of HTTPClient.Do: http.NewRequest either
\* fails, and the function returns, or the upstream request is issued.
NewRequest(r) ==
    /\ pc[r] = "prepare"
    /\ \/ /\ AfterPrepare(r, BadRequestOutcome, 0)
          /\ UNCHANGED upstreamCalls
       \/ /\ upstreamCalls' = [upstreamCalls EXCEPT ![r] = HTTPClientDo(upstreamCalls[r])]
          /\ pc' = [pc EXCEPT ![r] = "awaiting"]
          /\ UNCHANGED <<Reqs, resp, respOf, up, cacheStatus, pcf, fwd, sent>>
    /\ UNCHANGED <<kind, key>>
    /\ UNCHANGED <<ncalls, origin, outsideProxy>>

\* HTTPClient.Do returns; PrepareFetchReader finishes and the caller goes on
\* to its next access of shared state.
DoReturn(r) ==
    /\ pc[r] = "awaiting"
    /\ \E o \in Outcomes(origin) : \E n \in 0..o.len : AfterPrepare(r, o, n)
    /\ UNCHANGED <<kind, key, upstreamCalls>>
    /\ UNCHANGED <<ncalls, origin, outsideProxy>>

\* The joining branch: resp = pcf.GetResp(); PrepareResponseWriter(w, ...).
JoinPrepare(r) ==
    /\ pc[r] = "join"
    /\ respOf' = [respOf EXCEPT ![r] = fwd[r]]
    /\ sent' = [sent EXCEPT ![r] =
                 PrepareResponseWriter(resp[fwd[r]].status, resp[fwd[r]].header)]
    /\ pc' = [pc EXCEPT ![r] = "addclient"]
    /\ UNCHANGED <<kind, key, Reqs, resp, up, upstreamCalls, cacheStatus, pcf, fwd>>
    /\ UNCHANGED <<ncalls, origin, outsideProxy>>

\* pcf.AddClient(writer) returns: the forwarder is closed and the client has
\* been written every block the forwarder holds.
AddClient(r) ==
    /\ pc[r] = "addclient"
    /\ pcf[fwd[r]].closed
    /\ sent' = [sent EXCEPT ![r].body = pcf[fwd[r]].written]
    /\ pc' = [pc EXCEPT ![r] = "record"]
    /\ UNCHANGED <<kind, key, Reqs, resp, respOf, up, upstreamCalls, cacheStatus, pcf, fwd>>
    /\ UNCHANGED <<ncalls, origin, outsideProxy>>

\* Forwarder f and the response it holds can no longer be reached once its
\* goroutine is over and no call other than r holds it.
Unreachable(f, r) ==
    /\ pcf[f].ppc = "done"
    /\ \A q \in Req \ {r} : fwd[q] # f

\* recordResults(r, "HTTPProxy", cacheStatusCode, ..., resp.Header); return resp
RecordResults(r) ==
    /\ pc[r] = "record"
    /\ IF pcf[respOf[r]].exists /\ ~Unreachable(respOf[r], r)
       THEN \* the response a forwarder holds
            /\ resp' = [resp EXCEPT ![respOf[r]].header =
                    recordResults("HTTPProxy", cacheStatus[r], resp[respOf[r]].header)]
            /\ UNCHANGED pcf
       ELSE \* nothing refers to the response (or its forwarder) after the return
            /\ resp' = [resp EXCEPT ![respOf[r]] = NilResp]
            /\ pcf' = [pcf EXCEPT ![respOf[r]] = NoPCF]
    /\ Gone(r, "done")
    /\ UNCHANGED Reqs
    /\ UNCHANGED <<ncalls, origin, outsideProxy>>

\* A panic unwinds the call; net/http's server recovers it and the handler is over.
Recover(r) ==
    /\ pc[r] = "panic"
    /\ resp' = [resp EXCEPT ![r] = NilResp]
    /\ Gone(r, "done")
    /\ UNCHANGED <<Reqs, pcf>>
    /\ UNCHANGED <<ncalls, origin, outsideProxy>>

\* Fetch: return body, resp, elapsed
FetchReturn(r) ==
    /\ pc[r] = "fetched"
    /\ resp' = [resp EXCEPT ![r] = NilResp]
    /\ Gone(r, "done")
    /\ UNCHANGED <<Reqs, pcf>>
    /\ UNCHANGED <<ncalls, origin, outsideProxy>>

\* The goroutine: io.Copy(pcf, reader) ends, at end of body (n = len) or on a
\* read error (n < len).
ProducerCopy(f) ==
    /\ pcf[f].ppc = "copy"
    /\ \E n \in 0..pcf[f].len :
        pcf' = [pcf EXCEPT ![f].written = n, ![f].ppc = "close"]
    /\ UNCHANGED <<pc, kind, key, Reqs, resp, respOf, up, upstreamCalls, cacheStatus, fwd, sent>>
    /\ UNCHANGED <<ncalls, origin, outsideProxy>>

\* The goroutine: pcf.Close()
ProducerClose(f) ==
    /\ pcf[f].ppc = "close"
    /\ pcf' = [pcf EXCEPT ![f].closed = TRUE, ![f].ppc = "delete"]
    /\ UNCHANGED <<pc, kind, key, Reqs, resp, respOf, up, upstreamCalls, cacheStatus, fwd, sent>>
    /\ UNCHANGED <<ncalls, origin, outsideProxy>>

\* Mutant: the goroutine ends without Reqs.Delete(key).
ProducerEndsWithoutDelete(f) ==
    /\ pcf[f].ppc = "delete"
    /\ pcf' = [pcf EXCEPT ![f].ppc = "done"]
    /\ UNCHANGED <<pc, kind, key, Reqs, resp, respOf, up, upstreamCalls, cacheStatus, fwd, sent>>
    /\ UNCHANGED <<ncalls, origin, outsideProxy>>

\* The goroutine: Reqs.Delete(key)
ProducerDelete(f) ==
    /\ pcf[f].ppc = "delete"
    /\ Reqs' = [Reqs EXCEPT ![pcf[f].key] = NoReq]
    /\ IF \E q \in Req : fwd[q] = f
       THEN /\ pcf' = [pcf EXCEPT ![f].ppc = "done"]
            /\ UNCHANGED resp
       ELSE \* no call holds the forwarder: it is unreachable from here on
            /\ pcf' = [pcf EXCEPT ![f] = NoPCF]
            /\ resp' = [resp EXCEPT ![f] = NilResp]
    /\ UNCHANGED <<pc, kind, key, respOf, up, upstreamCalls, cacheStatus, fwd, sent>>
    /\ UNCHANGED <<ncalls, origin, outsideProxy>>

\* ------------------------------------------------------ route registration
OtherNames == <<"o1", "o2", "o3", "o4">>
OriginNames == {"default"} \cup {OtherNames[i] : i \in 1..NumOrigins}

\* An *OriginConfig as far as registration reads it: IsDefault, whether
\* OriginType is a valid origin type, and whether registerOriginRoutes
\* succeeds for it (GetCache finds CacheName and NewClient returns no error).
OriginConfigs == [IsDefault : BOOLEAN, validType : BOOLEAN, registers : BOOLEAN]

\* The maps config.Origins can be.
\* Load refuses a configuration without origins.
OriginMaps == UNION {[names -> OriginConfigs] : names \in (SUBSET OriginNames) \ {{}}}

\* Route registration has not begun.
RouteIdle ==
    /\ configured = <<>>
    /\ origins = <<>>
    /\ todo = {}
    /\ rpc = "off"
    /\ cdo = ""
    /\ ndo = ""
    /\ defaultOrigin = ""
    /\ registered = <<>>
    /\ rerr = ""

\* RegisterProxyRoutes is called on a configuration.
RouteInit ==
    /\ configured \in OriginMaps
    /\ origins = configured
    /\ todo = DOMAIN configured
    /\ rpc = "range"
    /\ cdo = ""
    /\ ndo = ""
    /\ defaultOrigin = ""
    /\ registered = <<>>
    /\ rerr = ""

\* return err
Return(err) ==
    /\ rerr' = err
    /\ rpc' = "returned"

\* Mutant: the client is nil and nothing is registered, without an error.
registerOriginRoutesNoClient(k, o, regs) ==
    IF o.registers
    THEN [err |-> "", registered |-> regs]
    ELSE [err |-> "registration failed", registered |-> regs]

\* Mutant: the routes are put before the routes registered so far.
registerOriginRoutesInFront(k, o, regs) ==
    IF o.registers
    THEN [err |-> "", registered |-> <<[name |-> k, IsDefault |-> o.IsDefault]>> \o regs]
    ELSE [err |-> "registration failed", registered |-> regs]

\* Mutant: every origin's paths are registered at the root as well.
registerOriginRoutesAtRoot(k, o, regs) ==
    IF o.registers
    THEN [err |-> "", registered |-> Append(regs, [name |-> k, IsDefault |-> TRUE])]
    ELSE [err |-> "registration failed", registered |-> regs]

\* registerOriginRoutes(k, o): the call is recorded with the IsDefault flag
\* registerPathRoutes reads; its error ("" : nil) is the result.
registerOriginRoutes(k, o, regs) ==
    IF o.registers
    THEN [err |-> "", registered |-> Append(regs, [name |-> k, IsDefault |-> o.IsDefault])]
    ELSE [err |-> "registration failed", registered |-> regs]

\* Mutant: a second default origin replaces the first.
SecondDefaultAccepted(c) == FALSE

\* if cdo != nil, met at an origin with IsDefault
SecondDefault(c) == c # ""

\* One iteration of for k, o := range config.Origins, in any order.
RangeStep(k) ==
    /\ rpc = "range"
    /\ k \in todo
    /\ todo' = todo \ {k}
    /\ LET o == origins[k] IN
       IF ~o.validType
       THEN /\ Return("unknown origin type in origin config")
            /\ UNCHANGED <<cdo, ndo, defaultOrigin, registered>>
       ELSE IF o.IsDefault
       THEN IF SecondDefault(cdo)
            THEN /\ Return("only one origin can be marked as default")
                 /\ UNCHANGED <<cdo, ndo, defaultOrigin, registered>>
            ELSE /\ defaultOrigin' = k
                 /\ cdo' = k
                 /\ UNCHANGED <<ndo, registered, rerr, rpc>>
       ELSE IF k = "default"
       THEN /\ ndo' = k
            /\ UNCHANGED <<cdo, defaultOrigin, registered, rerr, rpc>>
       ELSE LET res == registerOriginRoutes(k, o, registered) IN
            /\ registered' = res.registered
            /\ IF res.err # "" THEN Return(res.err) ELSE UNCHANGED <<rerr, rpc>>
            /\ UNCHANGED <<cdo, ndo, defaultOrigin>>
    /\ UNCHANGED <<configured, origins>>
    /\ UNCHANGED outsideRoute

\* Mutant: the origin named "default" is made the default whenever there is one.
PromoteNamedDefaultAlways(n, c) == n # ""

\* if ndo != nil { if cdo == nil {
PromoteNamedDefault(n, c) == n # "" /\ c = ""

\* The code after the loop: the origin named "default", then the default origin.
AfterRange ==
    /\ rpc = "range"
    /\ todo = {}
    /\ LET promote == PromoteNamedDefault(ndo, cdo)
           o1 == IF promote THEN [origins EXCEPT ![ndo].IsDefault = TRUE] ELSE origins
           cdo1 == IF promote THEN ndo ELSE cdo
           def1 == IF promote THEN "default" ELSE defaultOrigin
           r1 == IF ndo # "" /\ ~promote
                 THEN registerOriginRoutes("default", origins[ndo], registered)
                 ELSE [err |-> "", registered |-> registered]
           r2 == IF r1.err = "" /\ cdo1 # ""
                 THEN registerOriginRoutes(def1, o1[cdo1], r1.registered)
                 ELSE r1
       IN /\ origins' = o1
          /\ cdo' = cdo1
          /\ defaultOrigin' = def1
          /\ registered' = r2.registered
          /\ Return(r2.err)
    /\ UNCHANGED <<configured, todo, ndo>>
    /\ UNCHANGED outsideRoute

RouteNext == AfterRange \/ \E k \in OriginNames : RangeStep(k)

\* ------------------------------------------------------ path registration
\* Strings whose length or concatenation matters are sequences of characters.
SlashPath == <<"/">>
ApiPath == <<"/", "a", "p", "i">>
MethodGet == <<"G", "E", "T">>
MethodHead == <<"H", "E", "A", "D">>
MethodAny == <<"*">>

\* The origin's name, o.Name.
OriginName == <<"o", "1">>

\* methods.CacheableHTTPMethods()
CacheableHTTPMethods == <<MethodGet, MethodHead>>

\* methods.AllHTTPMethods(), as far as the model's methods go.
AllHTTPMethods == <<MethodGet, MethodHead>>

\* strings.Join(elems, sep)
RECURSIVE Join(_, _)
Join(elems, sep) ==
    IF elems = <<>> THEN <<>>
    ELSE IF Len(elems) = 1 THEN elems[1]
    ELSE elems[1] \o sep \o Join(Tail(elems), sep)

\* The key of a rule in o.Paths and pathsWithVerbs:
\* p.Path + "-" + strings.Join(p.Methods, "-")
PathKey(q) == q.Path \o <<"-">> \o Join(q.Methods, <<"-">>)

\* The method lists a rule is configured with.
MethodLists == {<<MethodGet>>, <<MethodGet, MethodHead>>, <<MethodHead, MethodGet>>}

\* A *config.PathConfig as far as registration reads it; HandlerOK says that
\* handlers[p.HandlerName] exists and is not nil.
PathConfigs ==
    [Path : {SlashPath, ApiPath}, Methods : MethodLists,
     MatchType : {"exact", "prefix"}, HandlerOK : BOOLEAN]

\* config.NewPathConfig()
NewPathConfig ==
    [Path |-> SlashPath, Methods |-> CacheableHTTPMethods,
     MatchType |-> "exact", HandlerOK |-> TRUE]

\* p2.Merge(p): the members the user set replace those of p2.
Merge(p2, q) ==
    [p2 EXCEPT !.Path = q.Path, !.Methods = q.Methods,
               !.MatchType = q.MatchType, !.HandlerOK = q.HandlerOK]

\* client.DefaultPathConfigs(o): the rules a client brings.
DefaultPathConfigs ==
    {[Path |-> SlashPath, Methods |-> <<>>, MatchType |-> "prefix", HandlerOK |-> TRUE],
     [Path |-> ApiPath, Methods |-> <<MethodGet, MethodHead>>,
      MatchType |-> "exact", HandlerOK |-> TRUE]}

\* The sets o.Paths can hold: at most n rules, no two under one key.
RECURSIVE PathSets(_)
PathSets(n) ==
    IF n = 0 THEN {{}}
    ELSE LET smaller == PathSets(n - 1) IN
         smaller \cup
         UNION {{S \cup {q} :
                    q \in {x \in PathConfigs : \A y \in S : PathKey(y) # PathKey(x)}} :
                S \in smaller}

\* registerPathRoutes has not been called.
PathIdle ==
    /\ paths = {}
    /\ oPaths = {}
    /\ oIsDefault = FALSE
    /\ pathsWithVerbs = <<>>
    /\ plist = <<>>
    /\ router = <<>>
    /\ ppc = [at |-> "off", i |-> 0]

\* registerPathRoutes(handlers, o, c, paths) is called.
PathInit ==
    /\ paths \in SUBSET DefaultPathConfigs
    /\ oPaths \in PathSets(MaxUserPaths)
    /\ oIsDefault \in BOOLEAN
    /\ pathsWithVerbs = <<>>
    /\ plist = <<>>
    /\ router = <<>>
    /\ ppc = [at |-> "merge", i |-> 0]

\* if len(p.Methods) == 0 { p.Methods = methods.CacheableHTTPMethods() }
WithMethods(q) == IF Len(q.Methods) = 0 THEN [q EXCEPT !.Methods = CacheableHTTPMethods] ELSE q

\* The two loops that fill pathsWithVerbs: the default rules, then o.Paths,
\* a rule of o.Paths merged into the rule already under its key.
MergedPaths(defaults, user) ==
    LET d == {WithMethods(q) : q \in defaults}
        dk == {PathKey(q) : q \in d}
        uk == {PathKey(q) : q \in user}
        dr(k) == CHOOSE q \in d : PathKey(q) = k
        ur(k) == CHOOSE q \in user : PathKey(q) = k
    IN [k \in dk \cup uk |->
            IF k \in uk
            THEN Merge(IF k \in dk THEN dr(k) ELSE NewPathConfig, ur(k))
            ELSE dr(k)]

MergePaths ==
    /\ ppc.at = "merge"
    /\ pathsWithVerbs' = MergedPaths(paths, oPaths)
    /\ ppc' = [at |-> "collect", i |-> 0]
    /\ UNCHANGED <<paths, oPaths, oIsDefault, plist, router>>
    /\ UNCHANGED outsidePath

\* ByLen.Less after the reversal: a may stand before b in plist.
ByLenReversed(a, b) == Len(a) >= Len(b)

\* The orders sort.Sort(ByLen(plist)) and the reversal can leave the keys in:
\* the range over the map starts from any order and ties keep theirs.
SortedLists(keys) ==
    {l \in [1..Cardinality(keys) -> keys] :
        /\ \A i, j \in 1..Cardinality(keys) : i # j => l[i] # l[j]
        /\ \A i, j \in 1..Cardinality(keys) : i < j => ByLenReversed(l[i], l[j])}

\* plist and deletes are collected, the deletes removed from pathsWithVerbs
\* (by path, not by key), and plist sorted and reversed.
BuildPlist ==
    /\ ppc.at = "collect"
    /\ LET valid == {k \in DOMAIN pathsWithVerbs : pathsWithVerbs[k].HandlerOK}
           deletes == {pathsWithVerbs[k].Path : k \in DOMAIN pathsWithVerbs \ valid}
       IN /\ plist' \in SortedLists(valid)
          /\ pathsWithVerbs' = [k \in DOMAIN pathsWithVerbs \ deletes |-> pathsWithVerbs[k]]
    /\ ppc' = [at |-> "register", i |-> 1]
    /\ UNCHANGED <<paths, oPaths, oIsDefault, router>>
    /\ UNCHANGED outsidePath

\* if p.Methods[0] == "*" { p.Methods = methods.AllHTTPMethods() }
ExpandMethods(q) == IF q.Methods[1] = MethodAny THEN [q EXCEPT !.Methods = AllHTTPMethods] ELSE q

\* A route of routing.Router: host-routed ("host"), under "/" + o.Name
\* ("prefixed") or at the root ("root"), for the rule under key k.
Route(via, match, path, q, k) ==
    [via |-> via, match |-> match, path |-> path, methods |-> q.Methods, key |-> k]

\* Mutant: the route under /<originName> is left out.
OriginRoutesHostOnly(q, k) == <<Route("host", q.MatchType, q.Path, q, k)>>

\* The two routes of one rule: Host(o.Name), then "/" + o.Name + p.Path.
OriginRoutes(q, k) ==
    <<Route("host", q.MatchType, q.Path, q, k),
      Route("prefixed", q.MatchType, <<"/">> \o OriginName \o q.Path, q, k)>>

\* The routes of one rule of the default origin at its unprefixed path.
RootRoutes(q, k) ==
    <<Route("root", q.MatchType, q.Path, q, k), Route("root", "exact", q.Path, q, k)>>

\* One iteration of the first loop over plist.
RegisterPath ==
    /\ ppc.at = "register"
    /\ ppc.i <= Len(plist)
    /\ LET v == plist[ppc.i] IN
       IF v \in DOMAIN pathsWithVerbs /\ Len(pathsWithVerbs[v].Methods) > 0
       THEN LET q == ExpandMethods(pathsWithVerbs[v]) IN
            /\ pathsWithVerbs' = [pathsWithVerbs EXCEPT ![v] = q]
            /\ router' = router \o OriginRoutes(q, v)
       ELSE UNCHANGED <<pathsWithVerbs, router>>
    /\ ppc' = [ppc EXCEPT !.i = @ + 1]
    /\ UNCHANGED <<paths, oPaths, oIsDefault, plist>>
    /\ UNCHANGED outsidePath

\* One iteration of the loop over plist for the default origin.
RegisterRootPath ==
    /\ ppc.at = "root"
    /\ ppc.i <= Len(plist)
    /\ LET v == plist[ppc.i] IN
       IF v \in DOMAIN pathsWithVerbs /\ Len(pathsWithVerbs[v].Methods) > 0
       THEN router' = router \o RootRoutes(pathsWithVerbs[v], v)
       ELSE UNCHANGED router
    /\ ppc' = [ppc EXCEPT !.i = @ + 1]
    /\ UNCHANGED <<paths, oPaths, oIsDefault, pathsWithVerbs, plist>>
    /\ UNCHANGED outsidePath

\* o.Paths = pathsWithVerbs
AssignPaths ==
    /\ oPaths' = {pathsWithVerbs[k] : k \in DOMAIN pathsWithVerbs}
    /\ ppc' = [at |-> "done", i |-> 0]

\* The first loop is over: if o.IsDefault, the second loop begins.
AfterRegister ==
    /\ ppc.at = "register"
    /\ ppc.i > Len(plist)
    /\ IF oIsDefault
       THEN ppc' = [at |-> "root", i |-> 1] /\ UNCHANGED oPaths
       ELSE AssignPaths
    /\ UNCHANGED <<paths, oIsDefault, pathsWithVerbs, plist, router>>
    /\ UNCHANGED outsidePath

\* The second loop is over.
AfterRoot ==
    /\ ppc.at = "root"
    /\ ppc.i > Len(plist)
    /\ AssignPaths
    /\ UNCHANGED <<paths, oIsDefault, pathsWithVerbs, plist, router>>
    /\ UNCHANGED outsidePath

PathNext ==
    \/ MergePaths
    \/ BuildPlist
    \/ RegisterPath
    \/ AfterRegister
    \/ RegisterRootPath
    \/ AfterRoot

\* ------------------------------------------------------------ config.Load
\* time.Duration is a signed integer of DurationBits bits counting ticks, and
\* time.Second is SecondTicks of them; both are scaled down from 64 bits and
\* 10^9 so that the seconds values that overflow stay small.
DurationBits == 6
SecondTicks == 4

\* Two's complement wrap-around of Go's integer arithmetic.
Wrap(x) ==
    LET m == 2 ^ DurationBits
        h == 2 ^ (DurationBits - 1)
    IN ((x + h) % m) - h

\* time.Duration(secs) * time.Second
SecondsToDuration(secs) == Wrap(secs * SecondTicks)

\* The values of the *_ttl_secs members of a configuration file; the last
\* is the least number of seconds whose duration overflows.
TTLSecs == {1, 3, (2 ^ (DurationBits - 1)) \div SecondTicks}

Digits == {"0", "1", "2", "3", "4", "5", "6", "7", "8", "9"}

DigitValue(ch) ==
    CASE ch = "0" -> 0 [] ch = "1" -> 1 [] ch = "2" -> 2 [] ch = "3" -> 3
      [] ch = "4" -> 4 [] ch = "5" -> 5 [] ch = "6" -> 6 [] ch = "7" -> 7
      [] ch = "8" -> 8 [] OTHER -> 9

RECURSIVE DecimalValue(_)
DecimalValue(str) ==
    IF str = <<>> THEN 0
    ELSE 10 * DecimalValue(SubSeq(str, 1, Len(str) - 1)) + DigitValue(str[Len(str)])

\* strconv.Atoi(str): an optional sign and at least one decimal digit.
Atoi(str) ==
    LET signed == str # <<>> /\ str[1] \in {"+", "-"}
        body == IF signed THEN Tail(str) ELSE str
        ok == body # <<>> /\ \A i \in 1..Len(body) : body[i] \in Digits
    IN [ok |-> ok,
        value |-> IF ~ok THEN 0
                  ELSE IF signed /\ str[1] = "-" THEN 0 - DecimalValue(body)
                  ELSE DecimalValue(body)]

\* Mutant: any integer is taken as a status code.
NegativeCacheKeyErrorNoRange(str) == ~Atoi(str).ok

\* The test Load makes of one key of a negative cache configuration.
NegativeCacheKeyError(str) ==
    LET ci == Atoi(str) IN ~ci.ok \/ ci.value < 400 \/ ci.value >= 600

\* The keys a negative cache configuration is written with.
NegativeCacheKeys ==
    {<<"4", "0", "4">>, <<"5", "9", "9">>, <<"3", "9", "9">>, <<"6", "0", "0">>,
     <<"4", "x", "4">>, <<>>}

\* config.NewOriginConfig(), as far as Load reads it; the default TTLs keep
\* their order (fast forward < time series < max) in the scaled durations.
NewOriginConfig ==
    [CacheName |-> "default", OriginURL |-> "", OriginType |-> "",
     NegativeCacheName |-> "default", NegativeCache |-> {},
     TimeseriesTTLSecs |-> 2, FastForwardTTLSecs |-> 1, MaxTTLSecs |-> 3,
     TimeseriesTTL |-> 2 * SecondTicks, FastForwardTTL |-> 1 * SecondTicks,
     MaxTTL |-> 3 * SecondTicks]

\* An origin of the configuration file with every member Load needs.
FileOrigin(ts, ff, max) ==
    [NewOriginConfig EXCEPT !.OriginURL = "http://origin", !.OriginType = "prometheus",
                            !.TimeseriesTTLSecs = ts, !.FastForwardTTLSecs = ff,
                            !.MaxTTLSecs = max]

\* The same with one member missing or wrong.
BrokenOrigins ==
    {[FileOrigin(1, 1, 3) EXCEPT !.OriginURL = ""],
     [FileOrigin(1, 1, 3) EXCEPT !.OriginURL = "%"],
     [FileOrigin(1, 1, 3) EXCEPT !.OriginType = ""],
     [FileOrigin(1, 1, 3) EXCEPT !.CacheName = "nocache"],
     [FileOrigin(1, 1, 3) EXCEPT !.NegativeCacheName = "nc1"]}

\* The [origins] table of a file: entries for "o1" and for "default", or not.
FileOriginMaps ==
    LET o1 == {FileOrigin(ts, ff, max) : ts \in TTLSecs, ff \in TTLSecs, max \in TTLSecs}
                \cup BrokenOrigins
        def == {FileOrigin(1, 1, 3), [FileOrigin(1, 1, 3) EXCEPT !.OriginURL = ""],
                [FileOrigin(1, 1, 3) EXCEPT !.CacheName = "nocache"]}
    IN {<<>>} \cup {[x \in {"o1"} |-> a] : a \in o1}
              \cup {[x \in {"default"} |-> b] : b \in def}
              \cup {[x \in {"o1", "default"} |-> IF x = "o1" THEN a ELSE b] :
                        a \in o1, b \in def}

\* Sets of at most n keys.
RECURSIVE KeySets(_)
KeySets(n) ==
    IF n = 0 THEN {{}}
    ELSE LET smaller == KeySets(n - 1) IN
         smaller \cup UNION {{S \cup {k} : k \in NegativeCacheKeys} : S \in smaller}

\* The [negative_caches] table of a file: name -> keys.
FileNegativeCaches ==
    {<<>>} \cup {[x \in {"default"} |-> K] : K \in KeySets(MaxNegativeKeys)}
           \cup {[x \in {"nc1"} |-> K] : K \in KeySets(MaxNegativeKeys)}

\* How Load is called: with -version; or with the file at the default path
\* or at the path given with -config, a file that can be decoded or not; and
\* with or without -origin-url and -origin-type.
Invocations ==
    [PrintVersion : {TRUE}, customPath : {FALSE}, decodes : {FALSE},
     origins : {<<>>}, negative : {<<>>}, providedOriginURL : {""},
     providedOriginType : {""}]
    \cup
    [PrintVersion : {FALSE}, customPath : BOOLEAN, decodes : {FALSE},
     origins : {<<>>}, negative : {<<>>}, providedOriginURL : {"", "http://flag", "%"},
     providedOriginType : {"", "prometheus"}]
    \cup
    [PrintVersion : {FALSE}, customPath : BOOLEAN, decodes : {TRUE},
     origins : FileOriginMaps, negative : FileNegativeCaches,
     providedOriginURL : {"", "http://flag", "%"},
     providedOriginType : {"", "prometheus"}]

\* url.Parse(u) fails.
URLParseError(u) == u = "%"

\* config.NewConfig(), as far as Load reads it.
NewConfig ==
    [Origins |-> [x \in {"default"} |-> NewOriginConfig],
     Caches |-> {"default"},
     NegativeCacheConfigs |-> [x \in {"default"} |-> {}]]

NoConfig == [Origins |-> <<>>, Caches |-> {}, NegativeCacheConfigs |-> <<>>]

\* c.validateConfigMappings()
validateConfigMappings(cfg) ==
    IF \E k \in DOMAIN cfg.Origins : cfg.Origins[k].CacheName \notin cfg.Caches
    THEN "invalid cache name" ELSE ""

\* c.processCachingConfigs(metadata): a cache no origin names is deleted.
processCachingConfigs(cfg) ==
    [cfg EXCEPT !.Caches = {n \in cfg.Caches :
                               \E k \in DOMAIN cfg.Origins : cfg.Origins[k].CacheName = n}]

\* c.setDefaults(metadata)
setDefaults(cfg) ==
    LET c2 == processCachingConfigs(cfg)
    IN [conf |-> c2, err |-> validateConfigMappings(c2)]

\* c.loadFile(): the file is decoded over the configuration NewConfig made,
\* which keeps the entries the file does not name. A file that cannot be
\* decoded leaves the defaults and is an error.
loadFile(inv) ==
    IF ~inv.decodes
    THEN [conf |-> setDefaults(NewConfig).conf, err |-> "cannot decode file"]
    ELSE setDefaults(
            [Origins |-> [k \in {"default"} \cup DOMAIN inv.origins |->
                             IF k \in DOMAIN inv.origins THEN inv.origins[k]
                             ELSE NewOriginConfig],
             Caches |-> {"default"},
             NegativeCacheConfigs |->
                 [k \in {"default"} \cup DOMAIN inv.negative |->
                     IF k \in DOMAIN inv.negative THEN inv.negative[k] ELSE {}]])

\* Load has not been called.
LoadIdle ==
    /\ invocation = <<>>
    /\ conf = NoConfig
    /\ Config = "previous"
    /\ ltodo = {}
    /\ lpc = "off"
    /\ lerr = ""

\* Load(applicationName, applicationVersion, arguments) is called.
LoadInit ==
    /\ invocation \in Invocations
    /\ conf = NoConfig
    /\ Config = "previous"
    /\ ltodo = {}
    /\ lpc = "file"
    /\ lerr = ""

\* return err (nil: "")
LoadReturns(err) ==
    /\ lerr' = err
    /\ lpc' = "returned"

\* if err := c.loadFile(); err != nil && Flags.customPath
LoadFileError(err, customPath) == err # "" /\ customPath

\* NewConfig, parseFlags and loadFile.
LoadFile ==
    /\ lpc = "file"
    /\ IF invocation.PrintVersion
       THEN LoadReturns("") /\ UNCHANGED conf
       ELSE LET f == loadFile(invocation) IN
            IF LoadFileError(f.err, invocation.customPath)
            THEN LoadReturns(f.err) /\ UNCHANGED conf
            ELSE conf' = f.conf /\ lpc' = "flags" /\ UNCHANGED lerr
    /\ UNCHANGED <<invocation, Config, ltodo>>
    /\ UNCHANGED outsideLoad

\* loadEnvVars and loadFlags, the origin named "default", and the package
\* variables set from c.
LoadFlags ==
    /\ lpc = "flags"
    /\ LET hasDefault == "default" \in DOMAIN conf.Origins
           url == invocation.providedOriginURL
           type == invocation.providedOriginType
           d0 == IF hasDefault THEN conf.Origins["default"] ELSE NewOriginConfig
           d1 == IF url # "" THEN [d0 EXCEPT !.OriginURL = url] ELSE d0
           d == IF type # "" THEN [d1 EXCEPT !.OriginType = type] ELSE d1
           kept == IF hasDefault /\ d.OriginURL = ""
                   THEN DOMAIN conf.Origins \ {"default"} ELSE DOMAIN conf.Origins
           o2 == [k \in kept |-> IF k = "default" THEN d ELSE conf.Origins[k]]
       IN IF hasDefault /\ url # "" /\ URLParseError(url)
          THEN LoadReturns("url parse error") /\ UNCHANGED <<conf, Config>>
          ELSE IF kept = {}
          THEN /\ LoadReturns("no valid origins configured")
               /\ conf' = [conf EXCEPT !.Origins = o2]
               /\ UNCHANGED Config
          ELSE /\ conf' = [conf EXCEPT !.Origins = o2]
               /\ Config' = "loaded"
               /\ lpc' = "negative"
               /\ UNCHANGED lerr
    /\ UNCHANGED <<invocation, ltodo>>
    /\ UNCHANGED outsideLoad

\* for k, n := range NegativeCacheConfigs { for c := range n { ... } }
CheckNegativeCaches ==
    /\ lpc = "negative"
    /\ IF \E k \in DOMAIN conf.NegativeCacheConfigs :
            \E str \in conf.NegativeCacheConfigs[k] : NegativeCacheKeyError(str)
       THEN LoadReturns("invalid negative cache config") /\ UNCHANGED ltodo
       ELSE ltodo' = DOMAIN conf.Origins /\ lpc' = "origins" /\ UNCHANGED lerr
    /\ UNCHANGED <<invocation, conf, Config>>
    /\ UNCHANGED outsideLoad

\* enforce MaxTTL: the two TTLs are cut to MaxTTLSecs.
EnforceMaxTTL(o) ==
    LET o1 == IF o.TimeseriesTTLSecs > o.MaxTTLSecs
              THEN [o EXCEPT !.TimeseriesTTLSecs = o.MaxTTLSecs, !.TimeseriesTTL = o.MaxTTL]
              ELSE o
    IN IF o1.FastForwardTTLSecs > o1.MaxTTLSecs
       THEN [o1 EXCEPT !.FastForwardTTLSecs = o1.MaxTTLSecs, !.FastForwardTTL = o1.MaxTTL]
       ELSE o1

\* One iteration of for k, o := range c.Origins, in any order.
LoadOrigin(k) ==
    /\ lpc = "origins"
    /\ k \in ltodo
    /\ ltodo' = ltodo \ {k}
    /\ LET o == conf.Origins[k] IN
       IF o.OriginURL = ""
       THEN LoadReturns("missing origin-url") /\ UNCHANGED conf
       ELSE IF URLParseError(o.OriginURL)
       THEN LoadReturns("url parse error") /\ UNCHANGED conf
       ELSE IF o.OriginType = ""
       THEN LoadReturns("missing origin-type") /\ UNCHANGED conf
       ELSE LET o1 == [o EXCEPT !.TimeseriesTTL = SecondsToDuration(o.TimeseriesTTLSecs),
                                !.FastForwardTTL = SecondsToDuration(o.FastForwardTTLSecs),
                                !.MaxTTL = SecondsToDuration(o.MaxTTLSecs)]
            IN IF o.NegativeCacheName \notin DOMAIN conf.NegativeCacheConfigs
               THEN /\ LoadReturns("invalid negative cache name")
                    /\ conf' = [conf EXCEPT !.Origins[k] = o1]
               ELSE /\ conf' = [conf EXCEPT !.Origins[k] =
                          EnforceMaxTTL([o1 EXCEPT !.NegativeCache =
                              {Atoi(str).value :
                                  str \in conf.NegativeCacheConfigs[o.NegativeCacheName]}])]
                    /\ UNCHANGED <<lpc, lerr>>
    /\ UNCHANGED <<invocation, Config>>
    /\ UNCHANGED outsideLoad

\* The loop over Caches, and return nil.
LoadDone ==
    /\ lpc = "origins"
    /\ ltodo = {}
    /\ LoadReturns("")
    /\ UNCHANGED <<invocation, conf, Config, ltodo>>
    /\ UNCHANGED outsideLoad

LoadNext ==
    \/ LoadFile
    \/ LoadFlags
    \/ CheckNegativeCaches
    \/ \E k \in {"default", "o1"} : LoadOrigin(k)
    \/ LoadDone

\* -------------------------------------------------- TricksterConfig.String
\* The keys of a headers table of the configuration file: the Authorization
\* header as Go spells it, the same header in lower case, and another header.
HeaderNames == {"Authorization", "authorization", "X-Scope"}

\* http.CanonicalMIMEHeaderKey: the name of the header a key sets.
CanonicalHeaderKey(k) == IF k = "authorization" THEN "Authorization" ELSE k

\* The value a table gives a header; the credentials of each table differ.
HeaderValue(table, k) ==
    IF CanonicalHeaderKey(k) = "Authorization"
    THEN "Basic " \o table \o " credentials" ELSE "scope"

\* The tables health_check_headers, request_headers and response_headers.
HeaderMaps(table) == {[k \in K |-> HeaderValue(table, k)] : K \in SUBSET HeaderNames}

RedisPasswords == {"", "redis password"}

\* The configurations String is called on: one origin with its health check
\* headers and at most one path, one cache with its Redis password.
StringConfigs ==
    {[Origins |-> [o \in {"o1"} |->
                      [HealthCheckHeaders |-> h,
                       Paths |-> [x \in {"/-GET"} |->
                                     [RequestHeaders |-> rq, ResponseHeaders |-> rs]]]],
      Caches |-> [x \in {"default"} |-> [Redis |-> [Password |-> pw]]]] :
        h \in HeaderMaps("health check"), rq \in HeaderMaps("request"),
        rs \in HeaderMaps("response"), pw \in RedisPasswords}
    \cup
    {[Origins |-> [o \in {"o1"} |-> [HealthCheckHeaders |-> h, Paths |-> <<>>]],
      Caches |-> [x \in {"default"} |-> [Redis |-> [Password |-> pw]]]] :
        h \in HeaderMaps("health check"), pw \in RedisPasswords}

Redacted == "*****"

\* var sensitiveCredentials = map[string]bool{headers.NameAuthorization: true}
sensitiveCredentials == {"Authorization"}

\* hideAuthorizationCredentials(headers)
hideAuthorizationCredentials(hdrs) ==
    [k \in DOMAIN hdrs |-> IF k \in sensitiveCredentials THEN Redacted ELSE hdrs[k]]

\* if v != nil && cp.Caches[k].Redis.Password != "" { ... = "*****" }
hideRedisPassword(cache) ==
    IF cache.Redis.Password # "" THEN [cache EXCEPT !.Redis.Password = Redacted] ELSE cache

\* The lines toml's encoder writes for one headers table.
EncodeHeaders(table, hdrs) == {<<table, k, hdrs[k]>> : k \in DOMAIN hdrs}

\* e.Encode(cp): the key = value lines of the text, each with its table.
Encode(cfg) ==
    UNION {EncodeHeaders("origins." \o o \o ".health_check_headers",
                         cfg.Origins[o].HealthCheckHeaders) : o \in DOMAIN cfg.Origins}
    \cup UNION {UNION {EncodeHeaders("origins." \o o \o ".paths." \o q \o ".request_headers",
                                     cfg.Origins[o].Paths[q].RequestHeaders)
                       \cup
                       EncodeHeaders("origins." \o o \o ".paths." \o q \o ".response_headers",
                                     cfg.Origins[o].Paths[q].ResponseHeaders) :
                          q \in DOMAIN cfg.Origins[o].Paths} : o \in DOMAIN cfg.Origins}
    \cup {<<"caches." \o n \o ".redis", "password", cfg.Caches[n].Redis.Password>> :
             n \in DOMAIN cfg.Caches}

NoText == {}

\* String has not been called.
StringIdle ==
    /\ running = <<>>
    /\ cp = <<>>
    /\ text = NoText
    /\ spc = "off"

\* c.String() is called.
StringInit ==
    /\ running \in StringConfigs
    /\ cp = <<>>
    /\ text = NoText
    /\ spc = "copy"

\* cp := c.copy()
StringCopy ==
    /\ spc = "copy"
    /\ cp' = running
    /\ spc' = "origins"
    /\ UNCHANGED <<running, text>>
    /\ UNCHANGED outsideString

\* for _, v := range cp.Origins: the headers of the origin and of its paths.
StringHideHeaders ==
    /\ spc = "origins"
    /\ cp' = [cp EXCEPT !.Origins =
                [o \in DOMAIN cp.Origins |->
                    [HealthCheckHeaders |->
                         hideAuthorizationCredentials(cp.Origins[o].HealthCheckHeaders),
                     Paths |->
                         [q \in DOMAIN cp.Origins[o].Paths |->
                             [RequestHeaders |-> hideAuthorizationCredentials(
                                                     cp.Origins[o].Paths[q].RequestHeaders),
                              ResponseHeaders |-> hideAuthorizationCredentials(
                                                      cp.Origins[o].Paths[q].ResponseHeaders)]]]]]
    /\ spc' = "caches"
    /\ UNCHANGED <<running, text>>
    /\ UNCHANGED outsideString

\* for k, v := range cp.Caches: strip Redis password.
StringHidePassword ==
    /\ spc = "caches"
    /\ cp' = [cp EXCEPT !.Caches = [n \in DOMAIN cp.Caches |-> hideRedisPassword(cp.Caches[n])]]
    /\ spc' = "encode"
    /\ UNCHANGED <<running, text>>
    /\ UNCHANGED outsideString

\* e.Encode(cp); return buf.String()
StringEncode ==
    /\ spc = "encode"
    /\ text' = Encode(cp)
    /\ spc' = "returned"
    /\ UNCHANGED <<running, cp>>
    /\ UNCHANGED outsideString

StringNext ==
    \/ StringCopy
    \/ StringHideHeaders
    \/ StringHidePassword
    \/ StringEncode

\* ------------------------------------------ engines.QueryCache, WriteCache
\* The logical keys; the second ends as a storage key of the first does.
CacheKeys == {"k", "k.sz"}

\* The headers of a document, other than Date, in the order they are written.
HeaderOrder == <<"Content-Type", "Date">>

HeaderValueOf(h) == IF h = "Date" THEN "Sun, 01 Jan 2023 00:00:00 GMT" ELSE "text/plain"

\* model.HTTPDocument
Documents ==
    {[StatusCode |-> st, Headers |-> [h \in H |-> HeaderValueOf(h)], Body |-> b] :
        st \in {"200", "404"}, H \in SUBSET {"Content-Type", "Date"}, b \in {"body"}}

\* d := &model.HTTPDocument{}
EmptyDocument == [StatusCode |-> "", Headers |-> <<>>, Body |-> ""]

\* delete(d.Headers, "Date")
DeleteDate(d) ==
    [d EXCEPT !.Headers = [h \in DOMAIN d.Headers \ {"Date"} |-> d.Headers[h]]]

\* The pairs of a header map, one after the other.
RECURSIVE HeaderPairs(_, _)
HeaderPairs(hdrs, i) ==
    IF i > Len(HeaderOrder) THEN <<>>
    ELSE (IF HeaderOrder[i] \in DOMAIN hdrs
          THEN <<HeaderOrder[i], hdrs[HeaderOrder[i]]>> ELSE <<>>)
         \o HeaderPairs(hdrs, i + 1)

\* d.MarshalMsg(nil): the fields of the document one after the other, the
\* number of headers before their pairs.
MarshalMsg(d) ==
    <<"doc", d.StatusCode, d.Body, Cardinality(DOMAIN d.Headers)>>
        \o HeaderPairs(d.Headers, 1)

\* d.UnmarshalMsg(bytes): bytes that are no document leave d as it was made.
UnmarshalMsg(bytes) ==
    IF Len(bytes) < 4 \/ bytes[1] # "doc" THEN EmptyDocument
    ELSE LET n == bytes[4]
             names == {bytes[4 + 2 * i - 1] : i \in 1..n}
         IN [StatusCode |-> bytes[2],
             Headers |-> [h \in names |->
                            bytes[4 + 2 * (CHOOSE i \in 1..n : bytes[4 + 2 * i - 1] = h)]],
             Body |-> bytes[3]]

\* snappy.Encode(nil, bytes)
SnappyEncode(bytes) == <<"sz", Len(bytes)>> \o bytes

\* snappy.Decode(nil, bytes): an error for bytes that are not an encoding.
SnappyDecode(bytes) ==
    IF Len(bytes) >= 2 /\ bytes[1] = "sz" /\ bytes[2] = Len(bytes) - 2
    THEN [ok |-> TRUE, bytes |-> SubSeq(bytes, 3, Len(bytes))]
    ELSE [ok |-> FALSE, bytes |-> <<>>]

\* Mutant: QueryCache retrieves under the logical key.
QueryKeyNoSuffix(lkey, inflate) == lkey

\* QueryCache: if inflate { key += ".sz" }
QueryKey(lkey, inflate) == IF inflate THEN lkey \o ".sz" ELSE lkey

\* WriteCache: if c.Configuration().Compression { key += ".sz" }
WriteKey(lkey, compress) == IF compress THEN lkey \o ".sz" ELSE lkey

NoDocument == <<>>

NoQuery == <<>>

\* The cache is empty and has not been used.
CacheEmpty ==
    /\ store = <<>>
    /\ written = [k \in CacheKeys |-> NoDocument]
    /\ queried = NoQuery

CacheIdle == compression = FALSE /\ CacheEmpty

\* A cache with its configuration.
CacheInit == compression \in BOOLEAN /\ CacheEmpty

\* c.Store(key, bytes, ttl)
Store(lkey, bytes) ==
    [k \in DOMAIN store \cup {lkey} |-> IF k = lkey THEN bytes ELSE store[k]]

\* WriteCache(c, key, d, ttl); c.Store keeps the bytes or returns an error.
WriteCache(lkey, d) ==
    /\ LET d1 == DeleteDate(d)
           marshalled == MarshalMsg(d1)
           skey == WriteKey(lkey, compression)
           bytes == IF compression THEN SnappyEncode(marshalled) ELSE marshalled
       IN \E stored \in BOOLEAN :
            IF stored
            THEN /\ store' = Store(skey, bytes)
                 /\ written' = [written EXCEPT ![lkey] = [d |-> d, key |-> skey]]
            ELSE UNCHANGED <<store, written>>
    /\ UNCHANGED <<compression, queried>>
    /\ UNCHANGED outsideCache

\* QueryCache(ctx, c, key)
QueryCache(lkey) ==
    /\ LET inflate == compression
           skey == QueryKey(lkey, inflate)
       IN IF skey \notin DOMAIN store
          THEN queried' = [key |-> lkey, storageKey |-> skey, bytes |-> <<>>,
                           inflate |-> inflate, d |-> EmptyDocument,
                           err |-> "key not found", after |-> written[lkey]]
          ELSE LET b == SnappyDecode(store[skey])
                   bytes == IF inflate /\ b.ok THEN b.bytes ELSE store[skey]
               IN queried' = [key |-> lkey, storageKey |-> skey, bytes |-> store[skey],
                              inflate |-> inflate, d |-> UnmarshalMsg(bytes),
                              err |-> "", after |-> written[lkey]]
    /\ UNCHANGED <<compression, store, written>>
    /\ UNCHANGED outsideCache

\* The cache drops an entry: its ttl is over, or it is removed.
Expire(skey) ==
    /\ skey \in DOMAIN store
    /\ store' = [k \in DOMAIN store \ {skey} |-> store[k]]
    /\ written' = [k \in CacheKeys |->
                      IF written[k] # NoDocument /\ written[k].key = skey
                      THEN NoDocument ELSE written[k]]
    /\ UNCHANGED <<compression, queried>>
    /\ UNCHANGED outsideCache

\* Bytes in the store that WriteCache did not write: no document, plain or
\* compressed.
ForeignBytes == {<<"junk">>, SnappyEncode(<<"junk">>)}

\* The store comes to hold, under a storage key, bytes of another writer or
\* of a damaged file; a document WriteCache stored there is replaced.
StoreForeign(skey, bytes) ==
    /\ store' = Store(skey, bytes)
    /\ written' = [k \in CacheKeys |->
                      IF written[k] # NoDocument /\ written[k].key = skey
                      THEN NoDocument ELSE written[k]]
    /\ UNCHANGED <<compression, queried>>
    /\ UNCHANGED outsideCache

CacheNext ==
    \/ \E skey \in {WriteKey(k, c) : k \in CacheKeys, c \in BOOLEAN}, bytes \in ForeignBytes :
          StoreForeign(skey, bytes)
    \/ \E lkey \in CacheKeys, d \in Documents : WriteCache(lkey, d)
    \/ \E lkey \in CacheKeys : QueryCache(lkey)
    \/ \E skey \in {WriteKey(k, c) : k \in CacheKeys, c \in BOOLEAN} : Expire(skey)

\* ------------------------------------------------ prometheus Client.SetExtent
\* time.Time counts ticks, TicksPerSecond of them to the second (scaled from
\* the 10^9 nanoseconds of Go's time).
TicksPerSecond == 2

\* const upStart, upEnd
upStart == "start"

upEnd == "end"

\* The keys of a query, as sort.Strings orders them.
ParamKeys == <<"end", "query", "start">>

\* The values of a pair as they are written in r.URL.RawQuery; the last has
\* an escape url.QueryUnescape refuses.
RawValues == {"1", "a+b", "a%20b", "%zz"}

\* The pairs of a RawQuery.
RawPairs == {<<k, v>> : k \in {ParamKeys[i] : i \in 1..Len(ParamKeys)}, v \in RawValues}

\* The raw queries of at most n pairs.
RECURSIVE RawQueries(_)
RawQueries(n) ==
    IF n = 0 THEN {<<>>}
    ELSE LET shorter == RawQueries(n - 1) IN
         shorter \cup {Append(q, p) : q \in shorter, p \in RawPairs}

\* timeseries.Extent: Start and End.
Extents == [Start : 0..MaxTime, End : 0..MaxTime]

\* url.QueryUnescape(v)
QueryUnescape(v) ==
    CASE v = "%zz" -> [ok |-> FALSE, s |-> ""]
      [] v \in {"a+b", "a%20b"} -> [ok |-> TRUE, s |-> "a b"]
      [] OTHER -> [ok |-> TRUE, s |-> v]

\* url.QueryEscape(v)
QueryEscape(v) == IF v = "a b" THEN "a+b" ELSE v

\* url.Values.Get-like access: the values of key k, none for a key not set.
ValuesOf(params, k) == IF k \in DOMAIN params THEN params[k] ELSE <<>>

\* r.URL.Query(): url.ParseQuery with its error dropped; a pair that cannot
\* be unescaped is discarded, the others are appended to their key.
RECURSIVE ParseQuery(_)
ParseQuery(raw) ==
    IF raw = <<>> THEN <<>>
    ELSE LET before == ParseQuery(SubSeq(raw, 1, Len(raw) - 1))
             p == raw[Len(raw)]
             u == QueryUnescape(p[2])
         IN IF ~u.ok THEN before
            ELSE [k \in DOMAIN before \cup {p[1]} |->
                     IF k = p[1] THEN Append(ValuesOf(before, k), u.s) ELSE before[k]]

\* Mutant: the value is added to those of the key (url.Values.Add).
SetAppends(params, k, v) ==
    [x \in DOMAIN params \cup {k} |->
        IF x = k THEN Append(ValuesOf(params, k), v) ELSE params[x]]

\* url.Values.Set(k, v)
Set(params, k, v) == [x \in DOMAIN params \cup {k} |-> IF x = k THEN <<v>> ELSE params[x]]

\* url.Values.Encode(): key=value pairs, sorted by key.
RECURSIVE EncodeFrom(_, _)
EncodeFrom(params, i) ==
    IF i > Len(ParamKeys) THEN <<>>
    ELSE LET vs == ValuesOf(params, ParamKeys[i]) IN
         [j \in 1..Len(vs) |-> <<ParamKeys[i], QueryEscape(vs[j])>>]
             \o EncodeFrom(params, i + 1)

\* extent.Start.Unix()
Unix(t) == t \div TicksPerSecond

\* strconv.FormatInt(n, 10)
FormatInt(n) == ToString(n)

\* The RawQuery SetExtent leaves in r.URL.
SetExtentQuery(raw, ext) ==
    LET params == ParseQuery(raw)
        p1 == Set(params, upStart, FormatInt(Unix(ext.Start)))
        p2 == Set(p1, upEnd, FormatInt(Unix(ext.End)))
    IN EncodeFrom(p2, 1)

\* SetExtent has not been called.
ExtentIdle ==
    /\ rawQuery = <<>>
    /\ extent = [Start |-> 0, End |-> 0]
    /\ original = <<>>
    /\ first = <<>>
    /\ epc = "off"

\* A request and an extent for it.
ExtentInit ==
    /\ rawQuery \in RawQueries(MaxParams)
    /\ extent \in Extents
    /\ original = rawQuery
    /\ first = <<>>
    /\ epc = "call"

\* c.SetExtent(r, extent), a first and a second time.
SetExtent ==
    /\ epc \in {"call", "once"}
    /\ rawQuery' = SetExtentQuery(rawQuery, extent)
    /\ first' = IF epc = "call" THEN rawQuery' ELSE first
    /\ epc' = IF epc = "call" THEN "once" ELSE "twice"
    /\ UNCHANGED <<extent, original>>
    /\ UNCHANGED outsideExtent

ExtentNext == SetExtent

\* ------------------------------------------------------------ tracing.Init
\* cfg.Implementation as configured; the last is no key of TracerImplementations.
Implementations == {"stdout", "jaeger", "zipkin"}

\* TracerImplementations[cfg.Implementation]: the zero value for a missing key.
TracerImplementation(name) == IF name = "jaeger" THEN "JaegerTracer" ELSE "StdoutTracerImplementation"

\* SetTracer(t, collectorURL): the flush function of the exporter, or nil and
\* the error of the exporter or of the provider.
SetTracer(t, fails) ==
    IF fails THEN [flush |-> "nil", err |-> "cannot set tracer"]
    ELSE [flush |-> IF t = "JaegerTracer" THEN "exporter.Flush" ELSE "func() {}", err |-> ""]

\* tracing.Init has not been called in this process.
TracingIdle ==
    /\ onceDone = FALSE
    /\ flushers = <<>>

\* tracing.Init(cfg): f sets the tracer and keeps its flush function in
\* flusher; once.Do(f) runs f in the first call only; return flusher.
TracingInit(name, fails) ==
    /\ Len(flushers) < MaxInits
    /\ LET fl == SetTracer(TracerImplementation(name), fails)
           flusher == IF onceDone THEN "nil" ELSE fl.flush
       IN flushers' = Append(flushers, [Implementation |-> name, flusher |-> flusher])
    /\ onceDone' = TRUE
    /\ UNCHANGED outsideTracing

TracingNext == \E name \in Implementations, fails \in BOOLEAN : TracingInit(name, fails)

\* ------------------------------------------------------------ request spans
\* The handlers a route can have, as far as they start spans.
HandlerNames == {"ProxyRequest", "ObjectProxyCacheRequest"}

\* o.Name and o.OriginType of a configured origin.
TracedOrigin(name) ==
    [Name |-> name, OriginType |-> IF name = "default" THEN "prometheus" ELSE "influxdb"]

\* The names of the origins whose registerPathRoutes has run.
Traced == {middlewares[i].Name : i \in 1..Len(middlewares)}

\* A tracer starts a span; a tracing middleware's span carries the originName
\* and originType the middleware was built with.
StartSpan(ss, name, o) ==
    Append(ss, [span |-> name, originName |-> o.Name, originType |-> o.OriginType, ended |-> 0])

NoOrigin == [Name |-> "", OriginType |-> ""]

\* span.End()
End(ss, i) == [ss EXCEPT ![i].ended = @ + 1]

Last(seq) == seq[Len(seq)]

Pop(seq) == SubSeq(seq, 1, Len(seq) - 1)

\* No route is registered and no request is handled.
SpanIdle ==
    /\ tpc = "register"
    /\ middlewares = <<>>
    /\ spans = <<>>
    /\ frames = <<>>
    /\ serving = ""
    /\ handlerName = ""

\* registerPathRoutes(handlers, o, c, paths), called once for an origin:
\* routing.Router.Use(middleware.Trace(o.Name, o.OriginType)) appends a tracing
\* middleware to the one router all origins share.
Use(name) ==
    /\ tpc = "register"
    /\ name \notin Traced
    /\ middlewares' = Append(middlewares, TracedOrigin(name))
    /\ UNCHANGED <<tpc, spans, frames, serving, handlerName, outsideSpan>>

\* The router matches an inbound request to a route of origin name, whose
\* handler is h, and calls the chain of its middlewares around the handler.
ServeHTTP(name, h) ==
    /\ tpc = "register"
    /\ name \in Traced
    /\ serving' = name
    /\ handlerName' = h
    /\ tpc' = "middleware"
    /\ UNCHANGED <<middlewares, spans, frames, outsideSpan>>

\* middleware.Trace: PrepareRequest starts the span, span.End is deferred,
\* the event carries originName and originType, then next.ServeHTTP(w, r).
Trace ==
    /\ tpc = "middleware"
    /\ Len(frames) < Len(middlewares)
    /\ spans' = StartSpan(spans, "Trace", middlewares[Len(frames) + 1])
    /\ frames' = Append(frames, Len(spans) + 1)
    /\ UNCHANGED <<tpc, middlewares, serving, handlerName, outsideSpan>>

\* ProxyRequest: the span "ProxyRequest" starts and its End is deferred.
ProxyRequestSpan ==
    /\ tpc = "middleware"
    /\ Len(frames) = Len(middlewares)
    /\ handlerName = "ProxyRequest"
    /\ spans' = StartSpan(spans, "ProxyRequest", NoOrigin)
    /\ frames' = Append(frames, Len(spans) + 1)
    /\ tpc' = "PrepareFetchReader"
    /\ UNCHANGED <<middlewares, serving, handlerName, outsideSpan>>

\* PrepareFetchReader up to http.NewRequest: the span "PrepareFetchReader"
\* starts and its End is deferred; when NewRequest fails the function returns.
PrepareFetchReaderSpan(fails) ==
    /\ tpc = "PrepareFetchReader"
    /\ LET started == StartSpan(spans, "PrepareFetchReader", NoOrigin)
       IN IF fails
          THEN /\ spans' = End(started, Len(started))
               /\ tpc' = "respond"
               /\ UNCHANGED frames
          ELSE /\ spans' = started
               /\ frames' = Append(frames, Len(started))
               /\ tpc' = "http.do"
    /\ UNCHANGED <<middlewares, serving, handlerName, outsideSpan>>

\* PrepareFetchReader from the child span on: the span
\* "PrepareFetchReader.http.do" starts, HTTPClient.Do runs; with an error the
\* function adds an event to the child span and returns, without an error it
\* ends the child span and goes on to its return. The deferred End of the
\* "PrepareFetchReader" span runs at either return.
HTTPDo(err) ==
    /\ tpc = "http.do"
    /\ LET started == StartSpan(spans, "PrepareFetchReader.http.do", NoOrigin)
           done == IF err THEN started ELSE End(started, Len(started))
       IN spans' = End(done, Last(frames))
    /\ frames' = Pop(frames)
    /\ tpc' = "respond"
    /\ UNCHANGED <<middlewares, serving, handlerName, outsideSpan>>

\* ProxyRequest returns or panics: the deferred End of its span runs.
ProxyRequestReturn ==
    /\ tpc = "respond"
    /\ spans' = End(spans, Last(frames))
    /\ frames' = Pop(frames)
    /\ tpc' = "unwind"
    /\ UNCHANGED <<middlewares, serving, handlerName, outsideSpan>>

\* QueryCache, called by ObjectProxyCacheRequest: the span "QueryCache" starts
\* and its End is deferred.
QueryCacheSpan ==
    /\ tpc = "middleware"
    /\ Len(frames) = Len(middlewares)
    /\ handlerName = "ObjectProxyCacheRequest"
    /\ spans' = StartSpan(spans, "QueryCache", NoOrigin)
    /\ frames' = Append(frames, Len(spans) + 1)
    /\ tpc' = "retrieve"
    /\ UNCHANGED <<middlewares, serving, handlerName, outsideSpan>>

\* QueryCache returns, with the document or with an error: the deferred End
\* of its span runs.
QueryCacheReturn ==
    /\ tpc = "retrieve"
    /\ spans' = End(spans, Last(frames))
    /\ frames' = Pop(frames)
    /\ tpc' = "unwind"
    /\ UNCHANGED <<middlewares, serving, handlerName, outsideSpan>>

\* next.ServeHTTP returns to a tracing middleware: its deferred span.End runs.
TraceReturn ==
    /\ tpc = "unwind"
    /\ frames # <<>>
    /\ spans' = End(spans, Last(frames))
    /\ frames' = Pop(frames)
    /\ tpc' = IF Len(frames) = 1 THEN "served" ELSE "unwind"
    /\ UNCHANGED <<middlewares, serving, handlerName, outsideSpan>>

SpanNext ==
    \/ \E name \in OriginNames : Use(name)
    \/ \E name \in OriginNames, h \in HandlerNames : ServeHTTP(name, h)
    \/ Trace
    \/ ProxyRequestSpan
    \/ \E fails \in BOOLEAN : PrepareFetchReaderSpan(fails)
    \/ \E err \in BOOLEAN : HTTPDo(err)
    \/ ProxyRequestReturn
    \/ QueryCacheSpan
    \/ QueryCacheReturn
    \/ TraceReturn

\* ------------------------------------------------------- specifications
LoadStart == ProxyOff /\ RouteIdle /\ PathIdle /\ LoadInit /\ StringIdle /\ CacheIdle /\ ExtentIdle /\ TracingIdle /\ SpanIdle

LoadSpec == LoadStart /\ [][LoadNext]_vars

StringStart == ProxyOff /\ RouteIdle /\ PathIdle /\ LoadIdle /\ StringInit /\ CacheIdle /\ ExtentIdle /\ TracingIdle /\ SpanIdle

StringSpec == StringStart /\ [][StringNext]_vars

CacheStart == ProxyOff /\ RouteIdle /\ PathIdle /\ LoadIdle /\ StringIdle /\ CacheInit /\ ExtentIdle /\ TracingIdle /\ SpanIdle

CacheSpec == CacheStart /\ [][CacheNext]_vars

ExtentStart == ProxyOff /\ RouteIdle /\ PathIdle /\ LoadIdle /\ StringIdle /\ CacheIdle /\ ExtentInit /\ TracingIdle /\ SpanIdle

ExtentSpec == ExtentStart /\ [][ExtentNext]_vars

TracingStart == ProxyOff /\ RouteIdle /\ PathIdle /\ LoadIdle /\ StringIdle /\ CacheIdle /\ ExtentIdle /\ TracingIdle /\ SpanIdle

TracingSpec == TracingStart /\ [][TracingNext]_vars

SpanStart == ProxyOff /\ RouteIdle /\ PathIdle /\ LoadIdle /\ StringIdle /\ CacheIdle /\ ExtentIdle /\ TracingIdle /\ SpanIdle

SpanSpec == SpanStart /\ [][SpanNext]_vars

PathStart == ProxyOff /\ RouteIdle /\ PathInit /\ LoadIdle /\ StringIdle /\ CacheIdle /\ ExtentIdle /\ TracingIdle /\ SpanIdle

PathSpec == PathStart /\ [][PathNext]_vars

RouteStart == ProxyOff /\ RouteInit /\ PathIdle /\ LoadIdle /\ StringIdle /\ CacheIdle /\ ExtentIdle /\ TracingIdle /\ SpanIdle

RouteSpec == RouteStart /\ [][RouteNext]_vars

Init == ProxyInit(NumRequests) /\ RouteIdle /\ PathIdle /\ LoadIdle /\ StringIdle /\ CacheIdle /\ ExtentIdle /\ TracingIdle /\ SpanIdle

FanOutInit == ProxyInit(NumRequests + 1) /\ RouteIdle /\ PathIdle /\ LoadIdle /\ StringIdle /\ CacheIdle /\ ExtentIdle /\ TracingIdle /\ SpanIdle

Next ==
    \E r \in Req :
        \/ StartProgressive(r)
        \/ StartDirect(r)
        \/ Load(r)
        \/ NewRequest(r)
        \/ DoReturn(r)
        \/ JoinPrepare(r)
        \/ AddClient(r)
        \/ RecordResults(r)
        \/ FetchReturn(r)
        \/ Recover(r)
        \/ ProducerCopy(r)
        \/ ProducerClose(r)
        \/ ProducerDelete(r)

Spec == Init /\ [][Next]_vars

\* The calls of ProxyRequest on a progressive path alone.
ForwardNext ==
    \E r \in Req :
        \/ StartProgressive(r)
        \/ Load(r)
        \/ NewRequest(r)
        \/ DoReturn(r)
        \/ JoinPrepare(r)
        \/ AddClient(r)
        \/ RecordResults(r)
        \/ Recover(r)
        \/ ProducerCopy(r)
        \/ ProducerClose(r)
        \/ ProducerDelete(r)

FanOutSpec == FanOutInit /\ [][ForwardNext]_vars

\* The Go scheduler runs the goroutine of every forwarder to its end.
LiveSpec ==
    Init /\ [][ForwardNext]_vars
    /\ \A f \in Req : WF_vars(ProducerClose(f)) /\ WF_vars(ProducerDelete(f))

\* ------------------------------------------------------------------ claims
\* The calls whose upstream fetch for key k is in flight: HTTPClient.Do has
\* been called and has not returned, or the goroutine still copies the body.
FetchesInFlight(k) ==
    {r \in Req :
        \/ pc[r] = "awaiting" /\ kind[r] = "progressive" /\ key[r] = k
        \/ pcf[r].exists /\ pcf[r].key = k /\ pcf[r].ppc = "copy"}

\* ProxyRequest calls that have an upstream answer.
Proxied(r) == kind[r] \in {"plain", "progressive"} /\ up[r].kind # "none"

\* C1: on a progressive path, at most one upstream fetch per key is in flight
\* at any time, under every interleaving of Load, the upstream call and Store.
C1_AtMostOneFetchPerKey ==
    \A k \in Keys : Cardinality(FetchesInFlight(k)) <= 1

\* C2: on a progressive path, a response of unknown Content-Length, or of one
\* not below MaxObjectSizeBytes, gets no forwarder and its whole body is
\* streamed to the requesting client.
C2_BypassStreamsBody ==
    \A r \in Req :
        (/\ kind[r] = "progressive" /\ pc[r] = "record" /\ up[r].kind = "ok"
         /\ (up[r].cl = 0 \/ up[r].cl >= OriginConfig.MaxObjectSizeBytes))
        => (~pcf[r].exists /\ sent[r].body = up[r].len)

\* C3: every client served through a forwarder, its creator or a joiner, is
\* sent the status and the headers the forwarder captured from the origin.
C3_SameStatusAndHeaders ==
    \A r \in Req :
        (fwd[r] # NoReq /\ sent[r].written)
        => (/\ sent[r].status = pcf[fwd[r]].capStatus
            /\ sent[r].header = pcf[fwd[r]].capHeader)

\* C4: once the goroutine of a forwarder has finished io.Copy (at end of
\* body or on a read error), the forwarder gets closed and its key is
\* eventually absent from Reqs, so that a later Load of the key misses.
C4_ProducerEndReleasesKey ==
    \A f \in 1..NumRequests : \A k \in Keys :
        /\ [](pcf[f].ppc \in {"delete", "done"} => pcf[f].closed)
        /\ (pcf[f].ppc = "close" /\ pcf[f].key = k)
              ~> (pcf[f].ppc \in {"done", "none"} /\ Reqs[k] = NoReq)

\* C4 witness: a goroutine is over, its forwarder closed and the key released.
C4_Witness ==
    \E f \in Req :
        pcf[f].ppc = "done" /\ pcf[f].closed /\ Reqs[pcf[f].key] = NoReq

\* C5: in every response ProxyRequest writes, the lookup status of the result
\* header is proxy-error iff the HTTP status is 400 or more, else proxy-only.
C5_StatusTracksUpstream ==
    \A r \in Req :
        sent[r].written
        => sent[r].header.Result.status =
             (IF sent[r].status >= StatusBadRequest
              THEN LookupStatusProxyError ELSE LookupStatusProxyOnly)

\* C6: when the HTTP client returns an error and no response, ProxyRequest
\* answers 502 with an empty body and result status proxy-error, and copies
\* nothing from a reader (itself or through a forwarder).
C6_UnreachableIs502 ==
    \A r \in Req :
        (Proxied(r) /\ up[r].kind \in {"refused", "timeout"})
        => (/\ sent[r].written
            /\ sent[r].status = StatusBadGateway
            /\ sent[r].body = 0
            /\ sent[r].header.Result.status = LookupStatusProxyError
            /\ ~pcf[r].exists)

\* C6 witness: a ProxyRequest call has answered its client after the origin
\* could not be reached.
C6_Witness ==
    \E r \in Req :
        Proxied(r) /\ up[r].kind = "refused" /\ pc[r] = "record" /\ sent[r].written

C8_ExactlyOneUpstreamRequest ==
    \A r \in Req : up[r].kind # "none" => upstreamCalls[r] = 1

\* C8 as amended: a call of PrepareFetchReader issues at most one upstream
\* request: exactly one once http.NewRequest has succeeded, whether the
\* request then fails or not, and none when http.NewRequest fails; a call of
\* ProxyRequest that attaches to a forwarder issues none.
C8_AtMostOneUpstreamRequest ==
    \A r \in Req :
        /\ upstreamCalls[r] <= 1
        /\ up[r].kind \notin {"none", "badreq"} => upstreamCalls[r] = 1
        /\ pc[r] = "awaiting" => upstreamCalls[r] = 1
        /\ up[r].kind = "badreq" => upstreamCalls[r] = 0
        /\ (fwd[r] # NoReq /\ fwd[r] # r) => upstreamCalls[r] = 0

\* C8 witness: a failed upstream request has come back, issued once.
C8_Witness ==
    \E r \in Req :
        up[r].kind \in {"refused", "timeout", "redirect"} /\ upstreamCalls[r] = 1

\* C9: every response ProxyRequest writes (plain path, creating and joining a
\* forwarder, upstream error) has the X-Trickster-Result header with engine
\* HTTPProxy among the headers written with the status line.
C9_ResultHeaderOnEveryResponse ==
    \A r \in Req :
        sent[r].written
        => (sent[r].header.Result.set /\ sent[r].header.Result.engine = "HTTPProxy")

\* C9 witness: a client that joined a forwarder has been written its headers.
C9_Witness ==
    \E r \in Req : fwd[r] # NoReq /\ fwd[r] # r /\ sent[r].written

\* The origins configured with IsDefault = true.
ConfiguredDefaults == {k \in DOMAIN configured : configured[k].IsDefault}

\* C10: RegisterProxyRoutes returns an error whenever two or more configured
\* origins have IsDefault = true, in whatever order the map is ranged over.
C10_TwoDefaultsIsAnError ==
    (rpc = "returned" /\ Cardinality(ConfiguredDefaults) >= 2) => rerr # ""

\* C10 witness: with two origins marked default and every origin otherwise
\* valid, the call has returned the duplicate-default error.
C10_Witness ==
    /\ rpc = "returned"
    /\ Cardinality(ConfiguredDefaults) >= 2
    /\ \A k \in DOMAIN configured : configured[k].validType /\ configured[k].registers
    /\ rerr = "only one origin can be marked as default"

\* The origins marked default once RegisterProxyRoutes has run.
MarkedDefault == {k \in DOMAIN origins : origins[k].IsDefault}

\* The names whose paths have been registered at the unprefixed root.
RegisteredAtRoot ==
    {registered[i].name : i \in {j \in 1..Len(registered) : registered[j].IsDefault}}

\* C11 as stated: after RegisterProxyRoutes returns without error exactly one
\* origin is marked default, and its paths are the ones registered at root.
C11_ExactlyOneDefault ==
    (rpc = "returned" /\ rerr = "")
    => (Cardinality(MarkedDefault) = 1 /\ RegisteredAtRoot = MarkedDefault)

\* C11 as amended: after RegisterProxyRoutes returns without error at most
\* one origin is marked default: none when no origin was configured with
\* IsDefault and none is named "default", one otherwise; the paths registered
\* at root are those of the marked origin and of no other.
C11_AtMostOneDefault ==
    (rpc = "returned" /\ rerr = "")
    => (/\ Cardinality(MarkedDefault) <= 1
        /\ (MarkedDefault = {}
              <=> (ConfiguredDefaults = {} /\ "default" \notin DOMAIN configured))
        /\ RegisteredAtRoot = MarkedDefault)

\* C11 witness: the call has returned without error, with one origin at root
\* and another origin registered beside it.
C11_Witness ==
    /\ rpc = "returned"
    /\ rerr = ""
    /\ Cardinality(RegisteredAtRoot) = 1
    /\ Len(registered) >= 2

\* C12: when an origin is named "default" without IsDefault and another
\* origin has IsDefault, a run that returns without error has registered the
\* IsDefault origin at root and the origin named "default" as an ordinary
\* origin, in every iteration order; the origin named "default" is marked
\* default only when no origin was configured with IsDefault.
C12_IsDefaultWinsOverName ==
    (rpc = "returned" /\ rerr = "" /\ "default" \in DOMAIN configured
        /\ ~configured["default"].IsDefault)
    => (/\ \A k \in ConfiguredDefaults :
              /\ defaultOrigin = k
              /\ RegisteredAtRoot = {k}
              /\ \E i \in 1..Len(registered) :
                    registered[i] = [name |-> "default", IsDefault |-> FALSE]
              /\ ~origins["default"].IsDefault
        /\ origins["default"].IsDefault => ConfiguredDefaults = {})

\* C12 witness: a run over an origin named "default" and an IsDefault origin
\* has returned without error.
C12_Witness ==
    /\ rpc = "returned"
    /\ rerr = ""
    /\ "default" \in DOMAIN configured
    /\ ~configured["default"].IsDefault
    /\ ConfiguredDefaults # {}

\* The positions in the router of the routes of kind via for the rule under k.
RoutesOf(k, via) == {i \in 1..Len(router) : router[i].key = k /\ router[i].via = via}

\* The set of HTTP methods of a rule.
MethodSet(q) == {q.Methods[i] : i \in 1..Len(q.Methods)}

C14_LongestPathFirst ==
    \A i, j \in 1..Len(router) :
        (i < j /\ router[i].via = "host" /\ router[j].via = "host")
        => Len(router[i].path) >= Len(router[j].path)

\* C15: once registerPathRoutes is over, at most one rule exists for each
\* pair of a path and a set of methods: a rule with the path and the method
\* set of a client default rule is the rule under that default rule's key.
C15_OneRulePerPathAndMethodSet ==
    ppc.at = "done" =>
    \A d \in {WithMethods(q) : q \in paths} : \A k \in DOMAIN pathsWithVerbs :
        (/\ pathsWithVerbs[k].Path = d.Path
         /\ MethodSet(pathsWithVerbs[k]) = MethodSet(d))
        => k = PathKey(d)

\* ------------------------------------------------------------ config.Load
\* Load has returned from a call that was not for -version.
Loaded == lpc = "returned" /\ ~invocation.PrintVersion

\* A key that is an integer status code from 400 to 599, written as such.
ValidStatusKey(str) ==
    /\ Len(str) = 3
    /\ str[1] \in {"4", "5"}
    /\ str[2] \in Digits
    /\ str[3] \in Digits

\* Some negative cache configuration of the file has a key that is no status
\* code from 400 to 599.
BadNegativeKey ==
    \E k \in DOMAIN invocation.negative :
        \E str \in invocation.negative[k] : ~ValidStatusKey(str)

\* C16: Load returns an error whenever a negative cache configuration has a
\* key that is not an integer status code from 400 to 599.
C16_BadNegativeKeyIsAnError == (Loaded /\ BadNegativeKey) => lerr # ""

\* Load met the key 600, which is an integer, and returned the error.
C16_Witness ==
    /\ Loaded
    /\ lerr = "invalid negative cache config"
    /\ \E k \in DOMAIN invocation.negative : <<"6", "0", "0">> \in invocation.negative[k]

\* Some origin of the file names a cache that is not configured.
UnknownCacheName ==
    \E k \in DOMAIN invocation.origins : invocation.origins[k].CacheName \notin {"default"}

\* C17: Load returns an error whenever an origin's cache_name names a cache
\* that is not configured, for a file at the default path as for a file given
\* with -config.
C17_UnknownCacheIsAnError == (Loaded /\ UnknownCacheName) => lerr # ""

\* C18: after Load returns without error every origin has TimeseriesTTL and
\* FastForwardTTL no greater than MaxTTL, and each duration is its seconds
\* field times one second.
C18_TTLsWithinMaxTTL ==
    (Loaded /\ lerr = "") =>
        \A k \in DOMAIN conf.Origins :
            LET o == conf.Origins[k] IN
            /\ o.TimeseriesTTL <= o.MaxTTL
            /\ o.FastForwardTTL <= o.MaxTTL
            /\ o.TimeseriesTTL = o.TimeseriesTTLSecs * SecondTicks
            /\ o.FastForwardTTL = o.FastForwardTTLSecs * SecondTicks
            /\ o.MaxTTL = o.MaxTTLSecs * SecondTicks

\* ---------------------------------------------------- TricksterConfig.String
\* The text has a line with the value v.
Contains(v) == \E line \in text : line[3] = v

\* The values of the Authorization headers of a headers table.
AuthorizationValues(hdrs) ==
    {hdrs[k] : k \in {x \in DOMAIN hdrs : CanonicalHeaderKey(x) = "Authorization"}}

\* The credentials of the configuration: the Redis passwords and the values
\* of the Authorization headers of the origins and of their paths.
Credentials ==
    ({running.Caches[n].Redis.Password : n \in DOMAIN running.Caches} \ {""})
    \cup UNION {AuthorizationValues(running.Origins[o].HealthCheckHeaders) :
                   o \in DOMAIN running.Origins}
    \cup UNION {UNION {AuthorizationValues(running.Origins[o].Paths[q].RequestHeaders)
                       \cup AuthorizationValues(running.Origins[o].Paths[q].ResponseHeaders) :
                          q \in DOMAIN running.Origins[o].Paths} : o \in DOMAIN running.Origins}

\* C19: the text String returns holds no configured Redis password and no
\* value of an Authorization header of an origin's health check headers or
\* of a path's request or response headers.
C19_NoCredentialInText == spc = "returned" => \A v \in Credentials : ~Contains(v)

\* ------------------------------------------ engines.QueryCache, WriteCache
\* QueryCache was called for a key whose document, written by WriteCache,
\* has not expired and has not been removed.
QueriedAfterWrite == queried # NoQuery /\ queried.after # NoDocument

ExtentSet == epc \in {"once", "twice"}

\* The number of pairs of the query with key k.
RECURSIVE PairsOf(_, _)
PairsOf(raw, k) ==
    IF raw = <<>> THEN 0
    ELSE PairsOf(Tail(raw), k) + (IF raw[1][1] = k THEN 1 ELSE 0)

\* The query has start and end of the extent in Unix seconds, and applying
\* SetExtent again changes nothing.
ExtentInQuery ==
    /\ ValuesOf(ParseQuery(rawQuery), upStart) = <<ToString(extent.Start \div TicksPerSecond)>>
    /\ ValuesOf(ParseQuery(rawQuery), upEnd) = <<ToString(extent.End \div TicksPerSecond)>>
    /\ epc = "twice" => rawQuery = first

\* C21 as stated: after SetExtent the query has start and end of the extent
\* in Unix seconds, every other parameter of the query keeps its values (as
\* many as it had pairs), and a second SetExtent changes nothing.
C21_SetExtentKeepsOthers ==
    ExtentSet =>
        /\ ExtentInQuery
        /\ \A k \in {"query"} :
              /\ Len(ValuesOf(ParseQuery(rawQuery), k)) = PairsOf(original, k)
              /\ PairsOf(rawQuery, k) = PairsOf(original, k)

\* C21, amended: the same, where every other parameter keeps the values that
\* url.ParseQuery decodes; a pair it cannot decode is dropped.
C21_SetExtentKeepsDecoded ==
    ExtentSet =>
        /\ ExtentInQuery
        /\ \A k \in {"query"} :
              ValuesOf(ParseQuery(rawQuery), k) = ValuesOf(ParseQuery(original), k)

\* SetExtent was applied twice to a query that had a start of its own and
\* another parameter written with an escape.
C21_Witness ==
    /\ epc = "twice"
    /\ extent.Start = 3
    /\ PairsOf(original, upStart) = 1
    /\ <<"query", "a%20b">> \in {original[i] : i \in 1..Len(original)}
    /\ <<"query", "a+b">> \in {rawQuery[i] : i \in 1..Len(rawQuery)}

\* How often registerOriginRoutes has written ProxyClients[k].
TimesRegistered(k) == Cardinality({i \in 1..Len(registered) : registered[i].name = k})

\* C22: when RegisterProxyRoutes returns without error, every configured
\* origin has been registered exactly once, and nothing else has.
C22_EveryOriginRegisteredOnce ==
    (rpc = "returned" /\ rerr = "") =>
        /\ \A k \in DOMAIN configured : TimesRegistered(k) = 1
        /\ Len(registered) = Cardinality(DOMAIN configured)

\* C22 witness: three origins, one marked default and one named "default",
\* have been registered by a call that returned without error.
C22_Witness ==
    /\ rpc = "returned"
    /\ rerr = ""
    /\ Cardinality(DOMAIN configured) = 3
    /\ "default" \in DOMAIN configured
    /\ \E k \in DOMAIN configured \ {"default"} : configured[k].IsDefault

\* C23: at every moment of RegisterProxyRoutes, in whatever order the map
\* is ranged over, the routes of an origin registered as the default are the
\* last ones registered: no other origin's routes come after them.
C23_DefaultRegisteredLast ==
    \A i \in 1..Len(registered) :
        registered[i].IsDefault => (i = Len(registered) /\ rpc = "returned")

\* C23 witness: the origin named "default" was promoted and registered after
\* two other origins.
C23_Witness ==
    /\ rpc = "returned"
    /\ rerr = ""
    /\ Len(registered) = 3
    /\ registered[3] = [name |-> "default", IsDefault |-> TRUE]
    /\ ConfiguredDefaults = {}

\* Call w is about to write, in recordResults, the header map of the response
\* of a forwarder that can still be found in Reqs.
WritesForwardedHeader(w) ==
    /\ pc[w] = "record"
    /\ respOf[w] # NoReq
    /\ pcf[respOf[w]].exists
    /\ Reqs[pcf[respOf[w]].key] = respOf[w]

\* Call r has loaded forwarder f and is about to read the header map of its
\* response in PrepareResponseWriter.
ReadsForwardedHeader(r, f) == pc[r] = "join" /\ fwd[r] = f

\* C24: while a forwarder can be found in Reqs, no ProxyRequest is at a write
\* of the header map of its response while another ProxyRequest is at a read
\* of the same map.
C24_NoHeaderWriteWhileRead ==
    \A w \in Req : WritesForwardedHeader(w) =>
        \A r \in Req \ {w} : ~ReadsForwardedHeader(r, respOf[w])

\* C25: for every outcome of PrepareFetchReader, neither ProxyRequest nor
\* Fetch reads from a missing reader or accesses a missing response: no call
\* ends in a nil dereference.
C25_NoNilDereference == \A r \in Req : pc[r] # "panic"

\* C26: QueryCache returns a nil error only with the document WriteCache
\* stored under the key; with an error it returns an empty document, and
\* bytes that cannot be decompressed or decoded are an error, not a hit.
C26_NilErrorOnlyWithWrittenDocument ==
    queried # NoQuery =>
        /\ queried.err = "" =>
              /\ queried.after # NoDocument
              /\ queried.d = DeleteDate(queried.after.d)
        /\ queried.err # "" => queried.d = EmptyDocument

\* C27: when Load returns an error, the package variables Config, Main,
\* Origins, Caches, Frontend, Logging, Metrics, Tracing and
\* NegativeCacheConfigs hold what they held before the call.
C27_ErrorLeavesPackageVariables ==
    (lpc = "returned" /\ lerr # "") => Config = "previous"

\* ------------------------------------------------------------ tracing.Init
\* C28: every call of tracing.Init returns a flush function that is not nil:
\* the first call, every later call, and a call in which SetTracer failed.
C28_FlushFunctionNeverNil ==
    \A i \in 1..Len(flushers) : flushers[i].flusher # "nil"

\* ------------------------------------------------------------ request spans
\* C29: every span started while a request is handled (the tracing
\* middleware's, ProxyRequest's, PrepareFetchReader's and its http.do child,
\* QueryCache's) has been ended exactly once when the request is served, on
\* the success path and on every error path.
C29_EverySpanEndedOnce ==
    tpc = "served" => \A i \in 1..Len(spans) : spans[i].ended = 1

\* The parent spans of the request: the spans of the tracing middlewares.
ParentSpans == {i \in 1..Len(spans) : spans[i].span = "Trace"}

\* C30: with any number of configured origins, a request passes through exactly
\* one tracing middleware and gets exactly one parent span, and that span
\* carries the name and the type of the origin that serves the request.
C30_OneParentSpanOfServingOrigin ==
    tpc = "served" =>
        /\ Cardinality(ParentSpans) = 1
        /\ \A i \in ParentSpans :
              /\ spans[i].originName = serving
              /\ spans[i].originType = TracedOrigin(serving).OriginType

====
